---------------------------- MODULE Spec2Model ----------------------------
(***************************************************************************)
(* Adamantine Wallet OS: the policy decision engine (EQC), the scoped      *)
(* execution gate (WSQK: scope, session, guard), the runtime orchestrator  *)
(* and the guardian approval workflow.                                     *)
(*                                                                         *)
(* One module, several specifications over the same variables:             *)
(*   SpecGate      sequential calls of the WSQK gate                       *)
(*   SpecRace      two callers stepping through execute_guarded            *)
(*   SpecRuntime   RuntimeOrchestrator.execute                             *)
(*   SpecGuardian  GuardianEngine.apply_decision on one request            *)
(* Each specification keeps the variables of the others at their idle      *)
(* values.                                                                 *)
(***************************************************************************)
EXTENDS Integers, Sequences, FiniteSets, TLC

VARIABLES
    now,          \* the time source: int(time.time()) and the explicit `now`
    scope,        \* the WSQKScope under study, NoScope before it is bound
    session,      \* the WSQKSession under study, NoSession before creation
    invocations,  \* executor invocations made through execute_guarded, per nonce
    last,         \* the last gate call: its inputs, outcome and executor invocations
    pc,           \* SpecRace: each caller's position inside execute_guarded
    frame,        \* SpecRace: each caller's arguments and outcome
    orch,         \* SpecRuntime: the last RuntimeOrchestrator.execute call
    request,      \* SpecGuardian: the ApprovalRequest (decisions, status)
    rule,         \* SpecGuardian: self.rules.get(request.rule_id)
    ballots,      \* SpecGuardian: history of the apply_decision calls
    history,      \* SpecRetry: what the earlier execute_guarded calls did
    eqc,          \* SpecPolicy, SpecRules: the context and the last EQC call on it
    engine,       \* SpecEvaluate: the GuardianEngine's rules and its evaluate call
    wallet,       \* SpecWallet: the WalletService, its collaborators and last call
    manager       \* SpecNodes: the NodeManager and its last get_best_node call

vars == <<now, scope, session, invocations, last, pc, frame, orch, request, rule,
          ballots, history, eqc, engine, wallet, manager>>

gateVars == <<scope, session, invocations, last>>
raceVars == <<pc, frame>>
guardianVars == <<request, rule, ballots>>
serviceVars == <<wallet, manager>>

(***************************************************************************)
(* Bounds of the model                                                     *)
(***************************************************************************)
MaxTime == 1
MaxTtl == 1
MaxMinApprovals == 2
MaxRules == 3
MaxEngineRules == 3
MaxExtra == 2
MaxCalls == 2
MaxNodes == 2

\* ttl_seconds is an int: negative values are accepted by the code
TtlValues == {-1} \cup (0..MaxTtl)

\* ttl_seconds: int = 60
DefaultTtlSeconds == 60

(***************************************************************************)
(* Strings and str.lower()                                                 *)
(***************************************************************************)
Wallets == {"wallet-1", "wallet-2"}
ActionNames == {"send", "SEND", "mint"}
Nonces == {"n1", "n2"}

Lower(s) ==
    CASE s = "SEND" -> "send"
      [] s = "Mint" -> "mint"
      [] s = "MINT" -> "mint"
      [] s = "Browser" -> "browser"
      [] s = "BROWSER" -> "browser"
      [] s = "DigiDollar" -> "digidollar"
      [] s = "DGB" -> "dgb"
      [] OTHER -> s

(***************************************************************************)
(* EQCContext, to_dict and context_hash                                    *)
(***************************************************************************)
\* Python values held by `extra` (Dict[str, Any]): a str, an int or a float
PyStr(s) == [py |-> "str", s |-> s, n |-> 0]
PyInt(n) == [py |-> "int", s |-> "", n |-> n]
PyFloat(n) == [py |-> "float", s |-> "", n |-> n]

\* Python's ==: an int and a float of the same number are equal, a str equals
\* only the same str
PyEq(x, y) ==
    IF x.py = "str" \/ y.py = "str" THEN x = y ELSE x.n = y.n

\* extra is a dict: a sequence of <<key, value>> pairs in insertion order
EQCContext(action, asset, amount, device_type, trusted, biometric, pin, extra) ==
    [ action  |-> [action |-> action, asset |-> asset, amount |-> amount],
      device  |-> [device_type |-> device_type, trusted |-> trusted],
      network |-> [network |-> "testnet"],
      user    |-> [biometric_available |-> biometric, pin_set |-> pin],
      timestamp |-> 0,
      extra   |-> extra ]

to_dict(ctx) ==
    [ action |-> ctx.action, device |-> ctx.device, network |-> ctx.network,
      user |-> ctx.user, timestamp |-> ctx.timestamp, extra |-> ctx.extra ]

\* mutant: json.dumps without sort_keys, the items in insertion order
JsonDumpsSorted_InsertionOrder(d) == d

\* json.dumps(..., sort_keys=True): the keys of every dict are emitted in sorted
\* order, so the encoding of a dict depends on its set of items only; an int is
\* written as 1 and the equal float as 1.0
JsonDumpsSorted(d) ==
    [d EXCEPT !.extra = {d.extra[i] : i \in DOMAIN d.extra}]

\* sha256 taken as collision-free on the encodings of the model
Sha256(encoded) == <<"sha256", encoded>>

context_hash(ctx) == Sha256(JsonDumpsSorted(to_dict(ctx)))

CtxSend    == EQCContext("send", "DGB", 1000, "mobile", TRUE, TRUE, TRUE,
                         << <<"memo", PyStr("a")>>, <<"tag", PyStr("b")>> >>)
\* the same field values as CtxSend, extra keys inserted in the other order
CtxSendRe  == EQCContext("send", "DGB", 1000, "mobile", TRUE, TRUE, TRUE,
                         << <<"tag", PyStr("b")>>, <<"memo", PyStr("a")>> >>)
CtxSend2   == EQCContext("send", "DGB", 2000, "mobile", TRUE, TRUE, TRUE, << >>)
CtxBrowser == EQCContext("send", "DGB", 1000, "browser", TRUE, TRUE, TRUE, << >>)
CtxMint    == EQCContext("mint", "DigiDollar", 1000, "mobile", TRUE, FALSE, TRUE, << >>)
CtxLarge   == EQCContext("send", "DGB", 10000000, "mobile", TRUE, FALSE, FALSE, << >>)
CtxNewDev  == EQCContext("send", "DGB", 1000, "mobile", FALSE, TRUE, FALSE, << >>)


\* a sub-record that is None
None == [none |-> TRUE]

\* an Optional value that is not None
Some(v) == [some |-> v]

\* a Context built without its user sub-record, and one without its action
CtxNoUser   == [CtxSend2 EXCEPT !.user = None]
CtxNoAction == [CtxSend2 EXCEPT !.action = None]

(***************************************************************************)
(* EQC verdicts and the default policy                                     *)
(***************************************************************************)
Reason(code, ruleName) == [code |-> code, rule |-> ruleName]

Verdict(type, reasons, step_up) ==
    [type |-> type, reasons |-> reasons, step_up |-> step_up]

\* a rule's verdict constructor returning None
NoVerdict == [type |-> "None", reasons |-> << >>, step_up |-> << >>]

LargeAmountThreshold == 10000000

\* mutant: pin before biometric
_best_step_up_requirements_PinFirst(ctx) ==
    LET bio == IF ctx.user.biometric_available THEN <<"biometric">> ELSE << >>
        pin == IF ctx.user.pin_set THEN <<"pin">> ELSE << >>
        req == pin \o bio
    IN  IF req = << >> THEN <<"local_confirmation">> ELSE req

_best_step_up_requirements(ctx) ==
    LET bio == IF ctx.user.biometric_available THEN <<"biometric">> ELSE << >>
        pin == IF ctx.user.pin_set THEN <<"pin">> ELSE << >>
        req == bio \o pin
    IN  IF req = << >> THEN <<"local_confirmation">> ELSE req

DefaultRules ==
    << "HARD_BLOCK_BROWSER_CONTEXT", "HARD_BLOCK_EXTENSION_CONTEXT",
       "STEP_UP_FOR_MINT_REDEEM", "STEP_UP_FOR_LARGE_AMOUNT",
       "STEP_UP_FOR_UNTRUSTED_DEVICE" >>

is_browser(ctx) == Lower(ctx.device.device_type) = "browser"

\* mutant: browser_extension is not an extension
is_extension_Narrow(ctx) == Lower(ctx.device.device_type) = "extension"

is_extension(ctx) ==
    Lower(ctx.device.device_type) \in {"extension", "browser_extension"}

is_mint_or_redeem(ctx) ==
    LET a == Lower(ctx.action.action)
    IN  \/ a \in {"mint", "redeem"}
        \/ (Lower(ctx.action.asset) = "digidollar" /\ a \in {"issue", "burn"})

\* mutant: the threshold itself is not large
is_large_amount_Strict(ctx) == ctx.action.amount > LargeAmountThreshold

is_large_amount(ctx) == ctx.action.amount >= LargeAmountThreshold

untrusted_device(ctx) == ~ctx.device.trusted

\* rules a caller may put into an EQCPolicy next to the default ones: one whose
\* verdict is None, one that denies, one whose verdict already carries a
\* POLICY_RULE_MATCH reason naming the rule, and one whose verdict carries the
\* POLICY_RULE_MATCH reason of the default allow
CustomRules ==
    {"CUSTOM_CONTINUE", "CUSTOM_DENY", "CUSTOM_ALLOW_TAGGED",
     "CUSTOM_ALLOW_AS_DEFAULT"}

RuleWhen(name, ctx) ==
    CASE name = "HARD_BLOCK_BROWSER_CONTEXT" -> is_browser(ctx)
      [] name = "HARD_BLOCK_EXTENSION_CONTEXT" -> is_extension(ctx)
      [] name = "STEP_UP_FOR_MINT_REDEEM" -> is_mint_or_redeem(ctx)
      [] name = "STEP_UP_FOR_LARGE_AMOUNT" -> is_large_amount(ctx)
      [] name = "STEP_UP_FOR_UNTRUSTED_DEVICE" -> untrusted_device(ctx)
      [] name = "CUSTOM_CONTINUE" -> TRUE
      [] name = "CUSTOM_DENY" -> ctx.action.amount >= 2000
      [] name = "CUSTOM_ALLOW_TAGGED" -> TRUE
      [] name = "CUSTOM_ALLOW_AS_DEFAULT" -> TRUE

RuleVerdict(name, ctx) ==
    CASE name = "HARD_BLOCK_BROWSER_CONTEXT" ->
            Verdict("DENY", <<Reason("BROWSER_CONTEXT_BLOCKED", "")>>, << >>)
      [] name = "HARD_BLOCK_EXTENSION_CONTEXT" ->
            Verdict("DENY", <<Reason("EXTENSION_CONTEXT_BLOCKED", "")>>, << >>)
      [] name = "STEP_UP_FOR_MINT_REDEEM" ->
            Verdict("STEP_UP", <<Reason("MINT_REDEEM_REQUIRES_STEP_UP", "")>>,
                    _best_step_up_requirements(ctx))
      [] name = "STEP_UP_FOR_LARGE_AMOUNT" ->
            Verdict("STEP_UP", <<Reason("LARGE_AMOUNT", "")>>,
                    _best_step_up_requirements(ctx))
      [] name = "STEP_UP_FOR_UNTRUSTED_DEVICE" ->
            Verdict("STEP_UP", <<Reason("NEW_DEVICE", "")>>,
                    _best_step_up_requirements(ctx))
      [] name = "CUSTOM_CONTINUE" -> NoVerdict
      [] name = "CUSTOM_DENY" ->
            Verdict("DENY", <<Reason("CUSTOM", "")>>, << >>)
      [] name = "CUSTOM_ALLOW_TAGGED" ->
            Verdict("ALLOW", <<Reason("POLICY_RULE_MATCH", "CUSTOM_ALLOW_TAGGED")>>,
                    << >>)
      [] name = "CUSTOM_ALLOW_AS_DEFAULT" ->
            Verdict("ALLOW", <<Reason("POLICY_RULE_MATCH", "DEFAULT_ALLOW")>>,
                    << >>)

HasRuleMatchReason(v) ==
    \E i \in DOMAIN v.reasons : v.reasons[i].code = "POLICY_RULE_MATCH"

RECURSIVE EvaluateRules(_, _, _)
EvaluateRules(rules, i, ctx) ==
    IF i > Len(rules)
    THEN Verdict("ALLOW", <<Reason("POLICY_RULE_MATCH", "DEFAULT_ALLOW")>>, << >>)
    ELSE IF RuleWhen(rules[i], ctx)
         THEN LET out == RuleVerdict(rules[i], ctx)
              IN  IF out # NoVerdict
                  THEN IF ~HasRuleMatchReason(out)
                       THEN Verdict(out.type,
                                    <<Reason("POLICY_RULE_MATCH", rules[i])>> \o out.reasons,
                                    out.step_up)
                       ELSE out
                  ELSE EvaluateRules(rules, i + 1, ctx)
         ELSE EvaluateRules(rules, i + 1, ctx)

\* mutant: the rules are run from the last to the first
EQCPolicy_evaluate_Reversed(rules, ctx) ==
    IF ctx.action = None \/ ctx.device = None \/ ctx.network = None \/ ctx.user = None
    THEN Verdict("DENY", <<Reason("MISSING_CONTEXT", "")>>, << >>)
    ELSE EvaluateRules([i \in 1..Len(rules) |-> rules[Len(rules) + 1 - i]], 1, ctx)

EQCPolicy_evaluate(rules, ctx) ==
    IF ctx.action = None \/ ctx.device = None \/ ctx.network = None \/ ctx.user = None
    THEN Verdict("DENY", <<Reason("MISSING_CONTEXT", "")>>, << >>)
    ELSE EvaluateRules(rules, 1, ctx)

\* the default classifiers read ctx.action, ctx.network and ctx.device: a None
\* sub-record there raises AttributeError out of classify_all
ClassifyRaises(ctx) ==
    ctx.action = None \/ ctx.network = None \/ ctx.device = None

\* EQCEngine.decide: classify, then evaluate, then hash
\* context_hash goes through to_dict, which reads the __dict__ of each of the
\* four sub-records: a None sub-record raises AttributeError
ToDictRaises(ctx) ==
    ctx.action = None \/ ctx.device = None \/ ctx.network = None \/ ctx.user = None

EQCEngine_decide(ctx) ==
    IF ClassifyRaises(ctx) \/ ToDictRaises(ctx)
    THEN [raised |-> "AttributeError"]
    ELSE [raised |-> "", verdict |-> EQCPolicy_evaluate(DefaultRules, ctx),
          context_hash |-> context_hash(ctx)]

(***************************************************************************)
(* Outcomes of calls, and the caller-supplied executor                     *)
(***************************************************************************)
Returned(value) == [kind |-> "return", value |-> value]
Raised(type)    == [kind |-> "raise", value |-> type]

\* what executor(context) does: return a value, or raise
ExceptionTypes ==
    {"ValueError", "WSQKSessionError", "WSQKExecutionError", "WSQKBindError",
     "RuntimeError"}
ExecutorBehaviours ==
    {Returned("result-1")} \cup {Raised(e) : e \in ExceptionTypes}

\* the executors presented to the gate: one that returns, one raising a type that
\* execute_guarded catches, one raising a type that nothing catches
GateExecutors == {Returned("result-1"), Raised("ValueError"), Raised("RuntimeError")}

(***************************************************************************)
(* WSQKScope                                                               *)
(***************************************************************************)
NoScope == [bound |-> FALSE]

WSQKScope(wallet_id, action, hash, not_before, expires_at) ==
    [ wallet_id |-> wallet_id, action |-> action, context_hash |-> hash,
      not_before |-> not_before, expires_at |-> expires_at ]

\* mutant: the window has no end
Scope_is_active_NoExpiry(s, t) == s.not_before <= t

\* mutant: the window closed one second early
Scope_is_active_Exclusive(s, t) == s.not_before <= t /\ t < s.expires_at

Scope_is_active(s, t) == s.not_before <= t /\ t <= s.expires_at

Scope_assert_wallet(s, wallet_id) == s.wallet_id = wallet_id

Scope_assert_action(s, action) == Lower(s.action) = Lower(action)

\* mutant: the context hash is not compared
Scope_assert_context_Skipped(s, hash) == TRUE

Scope_assert_context(s, hash) == s.context_hash = hash

\* mutant: the window is counted from time 0, not from the time of the call
Scope_from_ttl_FromZero(wallet_id, action, hash, ttl_seconds, t) ==
    WSQKScope(wallet_id, action, hash, t, ttl_seconds)

Scope_from_ttl(wallet_id, action, hash, ttl_seconds, t) ==
    WSQKScope(wallet_id, action, hash, t, t + ttl_seconds)

\* mutant: only DENY is refused
BindAllowed_UnlessDeny(decision) == decision.verdict.type # "DENY"

\* bind_scope_from_eqc: a scope only for an ALLOW decision
BindAllowed(decision) == decision.verdict.type = "ALLOW"

bind_scope_from_eqc(decision, wallet_id, action, ttl_seconds, t) ==
    IF ~BindAllowed(decision)
    THEN Raised("WSQKBindError")
    ELSE Returned(Scope_from_ttl(wallet_id, action, decision.context_hash,
                                 ttl_seconds, t))

\* the four assertions of execute_with_scope, in the order of the code
ScopeChecksPass(s, ctx, wallet_id, action, t) ==
    /\ Scope_is_active(s, t)
    /\ Scope_assert_wallet(s, wallet_id)
    /\ Scope_assert_action(s, action)
    /\ Scope_assert_context(s, context_hash(ctx))

\* execute_with_scope: [outcome, invoked] for an executor behaving as ex
execute_with_scope(s, ctx, wallet_id, action, ex, t) ==
    IF ~ScopeChecksPass(s, ctx, wallet_id, action, t)
    THEN [outcome |-> Raised("WSQKExecutionError"), invoked |-> 0]
    ELSE [outcome |-> ex, invoked |-> 1]

(***************************************************************************)
(* WSQKSession                                                             *)
(***************************************************************************)
NoSession == [created |-> FALSE]

WSQKSession(ttl_seconds, t) ==
    [created_at |-> t, expires_at |-> t + ttl_seconds, used_nonces |-> {}]

\* mutant: the window has no end
Session_is_active_NoExpiry(s, t) == s.created_at <= t

Session_is_active(s, t) == s.created_at <= t /\ t <= s.expires_at

\* mutant: no nonce counts as used
NonceUsed_Never(s, nonce) == FALSE

NonceUsed(s, nonce) == nonce \in s.used_nonces

\* mutant: the set is replaced by the new nonce alone
MarkUsed_Replaces(s, nonce) == [s EXCEPT !.used_nonces = {nonce}]

\* mutant: the nonce is not recorded
MarkUsed_Forgets(s, nonce) == s

MarkUsed(s, nonce) == [s EXCEPT !.used_nonces = @ \cup {nonce}]

\* mutant: consuming a used nonce again is no error
consume_nonce_Idempotent(s, nonce, t) ==
    IF ~Session_is_active(s, t)
    THEN [error |-> "WSQKSessionError", session |-> s]
    ELSE [error |-> "", session |-> MarkUsed(s, nonce)]

\* consume_nonce: [error, session']
consume_nonce(s, nonce, t) ==
    IF ~Session_is_active(s, t)
    THEN [error |-> "WSQKSessionError", session |-> s]
    ELSE IF NonceUsed(s, nonce)
         THEN [error |-> "WSQKSessionError", session |-> s]
         ELSE [error |-> "", session |-> MarkUsed(s, nonce)]

(***************************************************************************)
(* execute_guarded                                                         *)
(***************************************************************************)
\* exceptions that the guard converts into WSQKGuardError
GuardCaught == {"WSQKSessionError", "WSQKExecutionError", "ValueError"}

GuardError == Raised("WSQKGuardError")

GuardWrap(outcome) ==
    IF outcome.kind = "raise" /\ outcome.value \in GuardCaught
    THEN Raised("WSQKGuardError")
    ELSE outcome

\* [outcome, invoked, session'] of one whole call
execute_guarded(sc, se, nonce, ctx, wallet_id, action, ex, t) ==
    IF ~Session_is_active(se, t)
    THEN [outcome |-> Raised("WSQKGuardError"), invoked |-> 0, session |-> se]
    ELSE LET c == consume_nonce(se, nonce, t)
         IN  IF c.error # ""
             THEN [outcome |-> Raised("WSQKGuardError"), invoked |-> 0,
                   session |-> c.session]
             ELSE LET e == execute_with_scope(sc, ctx, wallet_id, action, ex, t)
                  IN  [outcome |-> GuardWrap(e.outcome), invoked |-> e.invoked,
                       session |-> c.session]


(***************************************************************************)
(* SpecGate: sequential calls of the gate on one scope and one session     *)
(***************************************************************************)
NoCall == [op |-> "none"]

\* <<context, wallet_id, action>> as bound and as presented: the base request and
\* every request that differs from it in one component
BaseRequest == <<CtxSend, "wallet-1", "send">>

OneOff(S) ==
    {p \in S : Cardinality({i \in 1..3 : p[i] # BaseRequest[i]}) <= 1}

BindRequests ==
    OneOff({CtxSend, CtxSend2, CtxBrowser, CtxMint} \X Wallets \X ActionNames)

Presentations ==
    OneOff({CtxSend, CtxSendRe, CtxSend2} \X Wallets \X ActionNames)

\* what SpecGate binds: the base request, the same with the action in another
\* letter case, and the requests whose decision is DENY or STEP_UP
GateBindRequests ==
    {b \in BindRequests : /\ b[1] # CtxSend2
                          /\ b[2] = BaseRequest[2]
                          /\ Lower(b[3]) = BaseRequest[3]}

IdleRace == /\ pc = << >>
            /\ frame = << >>
IdleRuntime == orch = NoCall
IdleHistory == history = << >>
IdleEqc == eqc = NoCall
IdleEngine == engine = NoCall
IdleService == /\ wallet = NoCall
               /\ manager = NoCall
IdleGuardian == /\ request = NoCall
                /\ rule = None
                /\ ballots = << >>

IdleGate ==
    /\ now = 0
    /\ scope = NoScope
    /\ session = NoSession
    /\ invocations = [n \in Nonces |-> 0]
    /\ last = NoCall

GateInit ==
    /\ now = 0
    /\ scope = NoScope
    /\ session = NoSession
    /\ invocations = [n \in Nonces |-> 0]
    /\ last = NoCall
    /\ IdleHistory /\ IdleEqc /\ IdleEngine /\ IdleService
    /\ IdleRace /\ IdleRuntime /\ IdleGuardian

\* the clock advances
Tick ==
    /\ now < MaxTime
    /\ now' = now + 1
    /\ UNCHANGED <<gateVars, raceVars, orch, guardianVars, history, eqc, engine, serviceVars>>

\* bind_scope_from_eqc(decision=engine.decide(ctx), wallet_id, action, ttl_seconds)
BindScope(ctx, wallet_id, action, ttl) ==
    /\ scope = NoScope
    /\ LET decision == EQCEngine_decide(ctx)
           out == bind_scope_from_eqc(decision, wallet_id, action, ttl, now)
       IN  /\ scope' = IF out.kind = "return" THEN out.value ELSE scope
           /\ last' = [op |-> "bind_scope_from_eqc", decision |-> decision,
                       wallet_id |-> wallet_id, action |-> action, ttl |-> ttl,
                       at |-> now, outcome |-> out]
    /\ UNCHANGED <<now, session, invocations, raceVars, orch, guardianVars, history, eqc, engine, serviceVars>>

\* bind_scope_from_eqc(decision=engine.decide(ctx), wallet_id, action), with
\* ttl_seconds left at its default
BindScopeDefault(ctx, wallet_id, action) ==
    BindScope(ctx, wallet_id, action, DefaultTtlSeconds)

\* WSQKSession(ttl_seconds=ttl)
NewSession(ttl) ==
    /\ session = NoSession
    /\ session' = WSQKSession(ttl, now)
    /\ last' = [op |-> "WSQKSession", ttl |-> ttl, at |-> now]
    /\ UNCHANGED <<now, scope, invocations, raceVars, orch, guardianVars, history, eqc, engine, serviceVars>>

\* session.consume_nonce(nonce, now)
ConsumeNonce(nonce) ==
    /\ session # NoSession
    /\ LET c == consume_nonce(session, nonce, now)
       IN  /\ session' = c.session
           /\ last' = [op |-> "consume_nonce", nonce |-> nonce, at |-> now,
                       fresh |-> nonce \notin session.used_nonces,
                       outcome |-> IF c.error = "" THEN Returned("None")
                                   ELSE Raised(c.error)]
    /\ UNCHANGED <<now, scope, invocations, raceVars, orch, guardianVars, history, eqc, engine, serviceVars>>

\* execute_with_scope(scope, context, wallet_id, action, executor, now=t)
ExecuteWithScope(ctx, wallet_id, action, ex, t) ==
    /\ scope # NoScope
    /\ LET r == execute_with_scope(scope, ctx, wallet_id, action, ex, t)
       IN  last' = [op |-> "execute_with_scope", ctx |-> ctx,
                    wallet_id |-> wallet_id, action |-> action, ex |-> ex,
                    at |-> t, outcome |-> r.outcome, invoked |-> r.invoked]
    /\ UNCHANGED <<now, scope, session, invocations, raceVars, orch, guardianVars, history, eqc, engine, serviceVars>>

\* execute_guarded(scope, session, nonce, context, wallet_id, action, executor, now)
ExecuteGuarded(nonce, ctx, wallet_id, action, ex) ==
    /\ scope # NoScope
    /\ session # NoSession
    /\ LET r == execute_guarded(scope, session, nonce, ctx, wallet_id, action, ex, now)
       IN  /\ session' = r.session
           /\ invocations' = [invocations EXCEPT ![nonce] = @ + r.invoked]
           /\ last' = [op |-> "execute_guarded", nonce |-> nonce, ctx |-> ctx,
                       wallet_id |-> wallet_id, action |-> action, ex |-> ex,
                       at |-> now,
                       fresh |-> nonce \notin session.used_nonces,
                       outcome |-> r.outcome, invoked |-> r.invoked]
    /\ UNCHANGED <<now, scope, raceVars, orch, guardianVars, history, eqc, engine, serviceVars>>

GateNext ==
    \/ Tick
    \/ \E b \in GateBindRequests, ttl \in 0..MaxTtl : BindScope(b[1], b[2], b[3], ttl)
    \/ \E ttl \in 0..MaxTtl : NewSession(ttl)
    \/ \E n \in Nonces : ConsumeNonce(n)
    \/ \E p \in Presentations :
          ExecuteWithScope(p[1], p[2], p[3], Returned("result-1"), now)
    \/ \E n \in Nonces, p \in Presentations, ex \in GateExecutors :
          ExecuteGuarded(n, p[1], p[2], p[3], ex)

SpecGate == GateInit /\ [][GateNext]_vars

(***************************************************************************)
(* SpecScope: execute_with_scope on one scope, with an explicit `now` and   *)
(* every combination of context, wallet_id and action                      *)
(***************************************************************************)
ScopeNext ==
    \/ Tick
    \/ \E b \in BindRequests, ttl \in TtlValues : BindScope(b[1], b[2], b[3], ttl)
    \/ \E b \in BindRequests : BindScopeDefault(b[1], b[2], b[3])
    \/ \E ctx \in {CtxSend, CtxSendRe, CtxSend2}, w \in Wallets, a \in ActionNames,
          ex \in GateExecutors, t \in 0..MaxTime :
          ExecuteWithScope(ctx, w, a, ex, t)

SpecScope == GateInit /\ [][ScopeNext]_vars

(***************************************************************************)
(* SpecRuntime: RuntimeOrchestrator.execute, a stateless call. Init draws   *)
(* the arguments, OrchestratorExecute applies the call.                    *)
(***************************************************************************)
\* mutant: only DENY blocks
ExecutionAllowed_UnlessDeny(decision) == decision.verdict.type # "DENY"

\* orchestrator.py: the verdict check after decide
ExecutionAllowed(decision) == decision.verdict.type = "ALLOW"

\* exceptions of the WSQK path that execute turns into ExecutionBlocked
OrchestratorCaught == {"WSQKBindError", "WSQKExecutionError"}

Blocked == Raised("ExecutionBlocked")

\* wallet_id / action that are None or empty: `not wallet_id`
Missing(arg) == arg = ""

\* [outcome, invoked, verdict, context_hash] of one call; t1 is the time read by
\* from_ttl, t2 the time read by execute_with_scope
RuntimeOrchestrator_execute(ctx, ex, use_wsqk, wallet_id, action, ttl, t1, t2) ==
    LET decision == EQCEngine_decide(ctx)
        res(outcome, invoked) ==
            [ outcome |-> outcome, invoked |-> invoked,
              verdict |-> IF decision.raised # "" THEN "none"
                          ELSE decision.verdict.type,
              context_hash |-> IF outcome.kind = "return"
                               THEN decision.context_hash ELSE << >> ]
    IN  IF decision.raised # ""
        THEN res(Raised(decision.raised), 0)
        ELSE IF ~ExecutionAllowed(decision)
        THEN res(Blocked, 0)
        ELSE IF ~use_wsqk
        THEN res(ex, 1)
        ELSE IF Missing(wallet_id) \/ Missing(action)
        THEN res(Raised("ValueError"), 0)
        ELSE LET bound == bind_scope_from_eqc(decision, wallet_id, action, ttl, t1)
             IN  IF bound.kind = "raise"
                 THEN res(Blocked, 0)
                 ELSE LET e == execute_with_scope(bound.value, ctx, wallet_id,
                                                  action, ex, t2)
                      IN  IF /\ e.outcome.kind = "raise"
                             /\ e.outcome.value \in OrchestratorCaught
                          THEN res(Blocked, e.invoked)
                          ELSE res(e.outcome, e.invoked)

RuntimeContexts ==
    {CtxSend, CtxSend2, CtxBrowser, CtxMint, CtxLarge, CtxNewDev, CtxNoUser,
     CtxNoAction}

RuntimeInit ==
    /\ now = 0
    /\ scope = NoScope
    /\ session = NoSession
    /\ invocations = [n \in Nonces |-> 0]
    /\ last = NoCall
    /\ IdleHistory /\ IdleEqc /\ IdleEngine /\ IdleService
    /\ IdleRace /\ IdleGuardian
    /\ \E ctx \in RuntimeContexts, ex \in ExecutorBehaviours, use_wsqk \in BOOLEAN,
          w \in Wallets \cup {""}, a \in ActionNames \cup {""}, ttl \in TtlValues :
          orch = [op |-> "call", ctx |-> ctx, ex |-> ex, use_wsqk |-> use_wsqk,
                  wallet_id |-> w, action |-> a, ttl |-> ttl]

\* orch.execute(context, executor, use_wsqk, wallet_id, action, ttl_seconds); the
\* clock may advance by `elapsed` between binding the scope and presenting it
OrchestratorExecute(elapsed) ==
    /\ orch.op = "call"
    /\ now + elapsed <= MaxTime
    /\ LET r == RuntimeOrchestrator_execute(orch.ctx, orch.ex, orch.use_wsqk,
                    orch.wallet_id, orch.action, orch.ttl, now, now + elapsed)
       IN  orch' = [ op |-> "done", ctx |-> orch.ctx, ex |-> orch.ex,
                     use_wsqk |-> orch.use_wsqk, wallet_id |-> orch.wallet_id,
                     action |-> orch.action, ttl |-> orch.ttl,
                     elapsed |-> elapsed, outcome |-> r.outcome,
                     invoked |-> r.invoked, verdict |-> r.verdict,
                     context_hash |-> r.context_hash ]
    /\ now' = now + elapsed
    /\ UNCHANGED <<gateVars, raceVars, guardianVars, history, eqc, engine, serviceVars>>

RuntimeNext ==
    \/ Tick
    \/ \E elapsed \in 0..1 : OrchestratorExecute(elapsed)

SpecRuntime == RuntimeInit /\ [][RuntimeNext]_vars

(***************************************************************************)
(* SpecRace: two callers inside execute_guarded on the same scope and      *)
(* session. The code takes no lock, so a caller can be preempted between   *)
(* any two statements; a step is one statement of guard.py / session.py /  *)
(* executor.py. With now=None every check reads the clock when it runs.    *)
(***************************************************************************)
Callers == {"caller-1", "caller-2"}

\* what the racing callers present: the bound request, and one other wallet
RacePresentations == {BaseRequest, <<CtxSend, "wallet-2", "send">>}

RaceExecutors == {Returned("result-1"), Raised("ValueError")}

RaceInit ==
    /\ now = 0
    /\ \E ttl \in 0..MaxTtl :
          scope = Scope_from_ttl(BaseRequest[2], BaseRequest[3],
                                 context_hash(BaseRequest[1]), ttl, 0)
    /\ \E ttl \in 0..MaxTtl : session = WSQKSession(ttl, 0)
    /\ invocations = [n \in Nonces |-> 0]
    /\ last = NoCall
    /\ IdleHistory /\ IdleEqc /\ IdleEngine /\ IdleService
    /\ pc = [c \in Callers |-> "idle"]
    /\ frame = [c \in Callers |-> NoCall]
    /\ IdleRuntime /\ IdleGuardian

RaceTick ==
    /\ now < MaxTime
    /\ now' = now + 1
    /\ UNCHANGED <<gateVars, raceVars, orch, guardianVars, history, eqc, engine, serviceVars>>

Goto(c, label) == pc' = [pc EXCEPT ![c] = label]

\* the caller leaves execute_guarded with WSQKGuardError
FailGuard(c) ==
    /\ frame' = [frame EXCEPT ![c].outcome = GuardError]
    /\ Goto(c, "done")

\* guard.py:41 the call is entered
RaceCall(c, nonce, p, ex) ==
    /\ pc[c] = "idle"
    /\ frame' = [frame EXCEPT ![c] =
                    [ nonce |-> nonce, ctx |-> p[1], wallet_id |-> p[2],
                      action |-> p[3], ex |-> ex,
                      outcome |-> Raised("pending"), invoked |-> 0 ]]
    /\ Goto(c, "guard_assert_active")
    /\ UNCHANGED <<now, gateVars, orch, guardianVars, history, eqc, engine, serviceVars>>

\* guard.py:58 session.assert_active(now=now)
GuardAssertActive(c) ==
    /\ pc[c] = "guard_assert_active"
    /\ IF Session_is_active(session, now)
       THEN Goto(c, "consume_assert_active") /\ UNCHANGED frame
       ELSE FailGuard(c)
    /\ UNCHANGED <<now, gateVars, orch, guardianVars, history, eqc, engine, serviceVars>>

\* session.py:63 self.assert_active(now=now) inside consume_nonce
ConsumeAssertActive(c) ==
    /\ pc[c] = "consume_assert_active"
    /\ IF Session_is_active(session, now)
       THEN Goto(c, "consume_check") /\ UNCHANGED frame
       ELSE FailGuard(c)
    /\ UNCHANGED <<now, gateVars, orch, guardianVars, history, eqc, engine, serviceVars>>

\* session.py:64 if nonce in self.used_nonces: raise
ConsumeCheck(c) ==
    /\ pc[c] = "consume_check"
    /\ IF NonceUsed(session, frame[c].nonce)
       THEN FailGuard(c)
       ELSE Goto(c, "consume_add") /\ UNCHANGED frame
    /\ UNCHANGED <<now, gateVars, orch, guardianVars, history, eqc, engine, serviceVars>>

\* session.py:66 self.used_nonces.add(nonce)
ConsumeAdd(c) ==
    /\ pc[c] = "consume_add"
    /\ session' = MarkUsed(session, frame[c].nonce)
    /\ Goto(c, "scope_checks")
    /\ UNCHANGED <<now, scope, invocations, last, frame, orch, guardianVars, history, eqc, engine, serviceVars>>

\* executor.py:54-60 the assertions of execute_with_scope
ScopeChecks(c) ==
    /\ pc[c] = "scope_checks"
    /\ IF ScopeChecksPass(scope, frame[c].ctx, frame[c].wallet_id,
                          frame[c].action, now)
       THEN Goto(c, "executor") /\ UNCHANGED frame
       ELSE FailGuard(c)
    /\ UNCHANGED <<now, gateVars, orch, guardianVars, history, eqc, engine, serviceVars>>

\* executor.py:62 executor(context), then guard.py:74-82
RunExecutor(c) ==
    /\ pc[c] = "executor"
    /\ invocations' = [invocations EXCEPT ![frame[c].nonce] = @ + 1]
    /\ frame' = [frame EXCEPT ![c].outcome = GuardWrap(frame[c].ex),
                              ![c].invoked = 1]
    /\ Goto(c, "done")
    /\ UNCHANGED <<now, scope, session, last, orch, guardianVars, history, eqc, engine, serviceVars>>

RaceNext ==
    \/ RaceTick
    \/ \E c \in Callers :
          \/ \E n \in Nonces, p \in RacePresentations, ex \in RaceExecutors :
                RaceCall(c, n, p, ex)
          \/ GuardAssertActive(c)
          \/ ConsumeAssertActive(c)
          \/ ConsumeCheck(c)
          \/ ConsumeAdd(c)
          \/ ScopeChecks(c)
          \/ RunExecutor(c)

SpecRace == RaceInit /\ [][RaceNext]_vars

(***************************************************************************)
(* SpecGuardian: GuardianEngine.apply_decision on one ApprovalRequest      *)
(***************************************************************************)
Guardians == {"g1", "g2", "g3"}
ApprovalStatus == {"PENDING", "APPROVED", "REJECTED", "EXPIRED", "CANCELLED"}

\* one guardian's response to the request
ApprovalDecision(guardian_id, status) ==
    [guardian_id |-> guardian_id, status |-> status]

\* the request as _build_approval_request hands it out
ApprovalRequest == [decisions |-> << >>, status |-> "PENDING"]

\* the rule the engine finds for request.rule_id: None when the engine holds
\* no rule under that id
GuardianRule(min_approvals) == [min_approvals |-> min_approvals]

approvals_count(req) ==
    Len(SelectSeq(req.decisions, LAMBDA d : d.status = "APPROVED"))

\* the decisions of the other guardians, in their order
RemovePrevious_Keeps(decisions, guardian_id) == decisions
RemovePrevious(decisions, guardian_id) ==
    SelectSeq(decisions, LAMBDA d : d.guardian_id # guardian_id)

QuorumReached_Exceeds(r, approvals) ==
    r # None /\ approvals > r.min_approvals
QuorumReached(r, approvals) ==
    r # None /\ approvals >= r.min_approvals

\* the final-outcome step: a REJECTED vote sets REJECTED, any other vote sets
\* APPROVED when the quorum is reached and leaves the status alone otherwise
NextStatus_KeepsApproved(old, status, r, approvals) ==
    IF status = "REJECTED" /\ old # "APPROVED" THEN "REJECTED"
    ELSE IF status # "REJECTED" /\ QuorumReached(r, approvals) THEN "APPROVED"
    ELSE old
NextStatus(old, status, r, approvals) ==
    IF status = "REJECTED" THEN "REJECTED"
    ELSE IF QuorumReached(r, approvals) THEN "APPROVED"
    ELSE old

apply_decision(req, r, guardian_id, status) ==
    LET recorded == [req EXCEPT !.decisions =
                        Append(RemovePrevious(req.decisions, guardian_id),
                               ApprovalDecision(guardian_id, status))]
    IN  [recorded EXCEPT !.status =
            NextStatus(req.status, status, r, approvals_count(recorded))]

\* what the guardians were asked so far: each guardian's latest vote, whether
\* every vote was APPROVED, and the last call with the status before it
NoBallots ==
    [latest |-> [g \in Guardians |-> "none"],
     only_approved |-> TRUE,
     vote |-> NoCall]

GuardianInit ==
    /\ now = 0
    /\ scope = NoScope
    /\ session = NoSession
    /\ invocations = [n \in Nonces |-> 0]
    /\ last = NoCall
    /\ IdleHistory /\ IdleEqc /\ IdleEngine /\ IdleService
    /\ IdleRace /\ IdleRuntime
    /\ request = ApprovalRequest
    /\ rule \in {None} \cup {GuardianRule(n) : n \in 0..MaxMinApprovals}
    /\ ballots = NoBallots

ApplyDecision(guardian_id, status) ==
    /\ request' = apply_decision(request, rule, guardian_id, status)
    /\ ballots' = [latest |-> [ballots.latest EXCEPT ![guardian_id] = status],
                   only_approved |-> ballots.only_approved /\ status = "APPROVED",
                   vote |-> [op |-> "apply_decision",
                             guardian_id |-> guardian_id,
                             status |-> status,
                             before |-> request.status,
                             previous |-> ballots.latest[guardian_id]]]
    /\ UNCHANGED <<now, gateVars, raceVars, orch, rule, history, eqc, engine, serviceVars>>

GuardianNext ==
    \E g \in Guardians, st \in ApprovalStatus : ApplyDecision(g, st)

SpecGuardian == GuardianInit /\ [][GuardianNext]_vars

(***************************************************************************)
(* SpecCatalog: GuardianEngine.apply_decision with the engine's rule        *)
(* catalog and a request that names its rule and its required guardians.    *)
(***************************************************************************)
RuleIds == {"r1", "r2"}

\* self.rules: the rules the engine holds, by id
Catalogs ==
    UNION {[S -> {GuardianRule(n) : n \in 0..MaxMinApprovals}] :
              S \in SUBSET RuleIds}

\* mutant: the rule is read by subscript, an absent id raises KeyError
rules_get_Subscript(rules, rule_id) ==
    IF rule_id \in DOMAIN rules
    THEN [raised |-> "", value |-> rules[rule_id]]
    ELSE [raised |-> "KeyError", value |-> None]

\* self.rules.get(rule_id): None for an id the catalog does not hold
rules_get(rules, rule_id) ==
    [raised |-> "",
     value |-> IF rule_id \in DOMAIN rules THEN rules[rule_id] ELSE None]

\* GuardianEngine.apply_decision(request, guardian_id, status):
\* [raised, request']; the rule is looked up only for a vote that is not
\* REJECTED, after the vote is in the list
GuardianEngine_apply_decision(rules, req, guardian_id, status) ==
    LET recorded == [req EXCEPT !.decisions =
                        Append(RemovePrevious(req.decisions, guardian_id),
                               ApprovalDecision(guardian_id, status))]
        found == IF status = "REJECTED" THEN [raised |-> "", value |-> None]
                 ELSE rules_get(rules, req.rule_id)
    IN  IF found.raised # ""
        THEN [raised |-> found.raised, request |-> recorded]
        ELSE [raised |-> "",
              request |-> apply_decision(req, found.value, guardian_id, status)]

\* requests as _build_approval_request hands them out, for rule r1
CatalogRequests ==
    {[rule_id |-> "r1", required_guardians |-> G, decisions |-> << >>,
      status |-> "PENDING"] : G \in {{"g1"}, {"g1", "g2"}}}

CatalogStatuses == {"PENDING", "APPROVED", "REJECTED"}

CatalogInit ==
    /\ now = 0
    /\ scope = NoScope
    /\ session = NoSession
    /\ invocations = [n \in Nonces |-> 0]
    /\ last = NoCall
    /\ IdleHistory /\ IdleEqc /\ IdleEngine /\ IdleService
    /\ IdleRace /\ IdleRuntime
    /\ request \in CatalogRequests
    /\ rule \in Catalogs
    /\ ballots = [vote |-> NoCall]

CatalogApply(guardian_id, status) ==
    /\ LET out == GuardianEngine_apply_decision(rule, request, guardian_id, status)
       IN  /\ request' = out.request
           /\ ballots' = [vote |-> [op |-> "apply_decision",
                                    guardian_id |-> guardian_id,
                                    status |-> status,
                                    before |-> request.status,
                                    raised |-> out.raised]]
    /\ UNCHANGED <<now, gateVars, raceVars, orch, rule, history, eqc, engine, serviceVars>>

CatalogNext ==
    \E g \in Guardians, st \in CatalogStatuses : CatalogApply(g, st)

SpecCatalog == CatalogInit /\ [][CatalogNext]_vars

(***************************************************************************)
(* SpecVotes: two guardians inside apply_decision on the same request. The *)
(* code takes no lock, so a caller can be preempted between any two        *)
(* statements; a step is one statement of apply_decision.                  *)
(***************************************************************************)
Voters == {"g1", "g2"}

VoteStatuses == {"APPROVED", "REJECTED", "PENDING"}

\* the requests the two votes arrive at: a new one, and one a third guardian
\* has voted on
VoteRequests ==
    {ApprovalRequest,
     [ApprovalRequest EXCEPT !.decisions = <<ApprovalDecision("g3", "PENDING")>>],
     [ApprovalRequest EXCEPT !.decisions = <<ApprovalDecision("g3", "APPROVED")>>]}

VotesInit ==
    /\ IdleGate /\ IdleRuntime /\ IdleHistory /\ IdleEqc /\ IdleEngine /\ IdleService
    /\ request \in VoteRequests
    /\ rule \in {None} \cup {GuardianRule(n) : n \in 0..MaxMinApprovals}
    /\ ballots = [origin |-> request]
    /\ pc = [g \in Voters |-> "idle"]
    /\ frame = [g \in Voters |-> NoCall]

\* engine.py:191 the call is entered
VoteCall(g, status) ==
    /\ pc[g] = "idle"
    /\ frame' = [frame EXCEPT ![g] =
                    [status |-> status, kept |-> << >>, approvals |-> 0]]
    /\ Goto(g, "filter")
    /\ UNCHANGED <<now, gateVars, orch, guardianVars, history, eqc, engine, serviceVars>>

\* engine.py:203-205 the list comprehension over request.decisions
VoteFilter(g) ==
    /\ pc[g] = "filter"
    /\ frame' = [frame EXCEPT ![g].kept = RemovePrevious(request.decisions, g)]
    /\ Goto(g, "store")
    /\ UNCHANGED <<now, gateVars, orch, guardianVars, history, eqc, engine, serviceVars>>

\* engine.py:203 request.decisions = <the new list>
VoteStore(g) ==
    /\ pc[g] = "store"
    /\ request' = [request EXCEPT !.decisions = frame[g].kept]
    /\ Goto(g, "append")
    /\ UNCHANGED <<now, gateVars, frame, orch, rule, ballots, history, eqc, engine, serviceVars>>

\* engine.py:208-212 request.decisions.append(ApprovalDecision(...))
VoteAppend(g) ==
    /\ pc[g] = "append"
    /\ request' = [request EXCEPT !.decisions =
                      Append(@, ApprovalDecision(g, frame[g].status))]
    /\ Goto(g, IF frame[g].status = "REJECTED" THEN "reject" ELSE "count")
    /\ UNCHANGED <<now, gateVars, frame, orch, rule, ballots, history, eqc, engine, serviceVars>>

\* engine.py:215-216 request.status = REJECTED
VoteReject(g) ==
    /\ pc[g] = "reject"
    /\ request' = [request EXCEPT !.status = "REJECTED"]
    /\ Goto(g, "done")
    /\ UNCHANGED <<now, gateVars, frame, orch, rule, ballots, history, eqc, engine, serviceVars>>

\* engine.py:218 approvals = request.approvals_count()
VoteCount(g) ==
    /\ pc[g] = "count"
    /\ frame' = [frame EXCEPT ![g].approvals = approvals_count(request)]
    /\ Goto(g, "outcome")
    /\ UNCHANGED <<now, gateVars, orch, guardianVars, history, eqc, engine, serviceVars>>

\* engine.py:219-222 the rule is looked up and the status set at the quorum
VoteOutcome(g) ==
    /\ pc[g] = "outcome"
    /\ request' = [request EXCEPT !.status =
                      IF QuorumReached(rule, frame[g].approvals)
                      THEN "APPROVED" ELSE @]
    /\ Goto(g, "done")
    /\ UNCHANGED <<now, gateVars, frame, orch, rule, ballots, history, eqc, engine, serviceVars>>

VotesNext ==
    \E g \in Voters :
        \/ \E st \in VoteStatuses : VoteCall(g, st)
        \/ VoteFilter(g)
        \/ VoteStore(g)
        \/ VoteAppend(g)
        \/ VoteReject(g)
        \/ VoteCount(g)
        \/ VoteOutcome(g)

SpecVotes == VotesInit /\ [][VotesNext]_vars

(***************************************************************************)
(* SpecRetry: repeated execute_guarded calls on one scope and one session, *)
(* each with the `now` argument its caller passes                          *)
(***************************************************************************)
\* what the execute_guarded calls made so far did: whether one succeeded, per
\* nonce whether a call failed and whether the executor raised, and whether
\* every call passed a `now` that a clock could have given (not before the
\* session was created, not before the `now` of the call before it)
NoHistory ==
    [succeeded |-> FALSE,
     failed |-> [n \in Nonces |-> FALSE],
     raised |-> [n \in Nonces |-> FALSE],
     clocked |-> TRUE,
     latest |-> 0]

\* the scope was bound at time 0 and the session is created at the clock's
\* reading, which is any time from then on; every call passes its own now
RetryInit ==
    /\ now \in 0..MaxTime
    /\ \E ttl \in 0..MaxTtl :
          scope = Scope_from_ttl(BaseRequest[2], BaseRequest[3],
                                 context_hash(BaseRequest[1]), ttl, 0)
    /\ session = NoSession
    /\ invocations = [n \in Nonces |-> 0]
    /\ last = NoCall
    /\ IdleRace /\ IdleRuntime /\ IdleGuardian
    /\ history = NoHistory
    /\ IdleEqc /\ IdleEngine /\ IdleService

\* execute_guarded(scope, session, nonce, context, wallet_id, action, executor,
\* now=t)
GuardedCall(nonce, ctx, wallet_id, action, ex, t) ==
    /\ scope # NoScope
    /\ session # NoSession
    /\ LET r == execute_guarded(scope, session, nonce, ctx, wallet_id, action, ex, t)
           ok == r.outcome.kind = "return"
       IN  /\ session' = r.session
           /\ invocations' = [invocations EXCEPT ![nonce] = @ + r.invoked]
           /\ last' = [op |-> "execute_guarded", nonce |-> nonce, ctx |-> ctx,
                       wallet_id |-> wallet_id, action |-> action, ex |-> ex,
                       at |-> t,
                       fresh |-> nonce \notin session.used_nonces,
                       outcome |-> r.outcome, invoked |-> r.invoked,
                       before |-> history]
           /\ history' =
                [succeeded |-> history.succeeded \/ ok,
                 failed |-> [history.failed EXCEPT ![nonce] = @ \/ ~ok],
                 raised |-> [history.raised EXCEPT ![nonce] =
                                @ \/ (r.invoked = 1 /\ ex.kind = "raise")],
                 clocked |-> /\ history.clocked
                             /\ t >= session.created_at
                             /\ t >= history.latest,
                 latest |-> t]
    /\ UNCHANGED <<now, scope, raceVars, orch, guardianVars, eqc, engine, serviceVars>>

RetryNext ==
    \/ \E ttl \in 0..MaxTtl : NewSession(ttl)
    \/ \E n \in Nonces, p \in RacePresentations, ex \in GateExecutors,
          t \in 0..MaxTime :
          GuardedCall(n, p[1], p[2], p[3], ex, t)

SpecRetry == RetryInit /\ [][RetryNext]_vars

(***************************************************************************)
(* SpecWindow: one session, and calls of consume_nonce and execute_guarded  *)
(* that each pass their own now, inside or outside the session's window.    *)
(***************************************************************************)
\* session.consume_nonce(nonce, now=t)
ConsumeNonceAt(nonce, t) ==
    /\ session # NoSession
    /\ LET c == consume_nonce(session, nonce, t)
       IN  /\ session' = c.session
           /\ last' = [op |-> "consume_nonce", nonce |-> nonce, at |-> t,
                       fresh |-> nonce \notin session.used_nonces,
                       outcome |-> IF c.error = "" THEN Returned("None")
                                   ELSE Raised(c.error)]
    /\ UNCHANGED <<now, scope, invocations, raceVars, orch, guardianVars, history, eqc, engine, serviceVars>>

WindowNext ==
    \/ \E ttl \in 0..MaxTtl : NewSession(ttl)
    \/ \E n \in Nonces, t \in 0..MaxTime : ConsumeNonceAt(n, t)
    \/ \E n \in Nonces, p \in RacePresentations, t \in 0..MaxTime :
          GuardedCall(n, p[1], p[2], p[3], Returned("result-1"), t)

SpecWindow == RetryInit /\ [][WindowNext]_vars

(***************************************************************************)
(* SpecNonce: one session whose nonces are issued by issue_nonce and then   *)
(* presented to consume_nonce and execute_guarded. The session keeps no     *)
(* record of what it issued: history holds it for the properties.           *)
(***************************************************************************)
NonceInit ==
    /\ now = 0
    /\ \E ttl \in 0..MaxTtl :
          scope = Scope_from_ttl(BaseRequest[2], BaseRequest[3],
                                 context_hash(BaseRequest[1]), ttl, 0)
    /\ session = NoSession
    /\ invocations = [n \in Nonces |-> 0]
    /\ last = NoCall
    /\ history = [issued |-> {}]
    /\ IdleRace /\ IdleRuntime /\ IdleGuardian
    /\ IdleEqc /\ IdleEngine /\ IdleService

\* session.issue_nonce(): a new uuid4 string, the session itself is unchanged
IssueNonce(nonce) ==
    /\ session # NoSession
    /\ nonce \notin history.issued
    /\ history' = [issued |-> history.issued \cup {nonce}]
    /\ last' = [op |-> "issue_nonce", nonce |-> nonce, at |-> now,
                fresh |-> nonce \notin session.used_nonces,
                outcome |-> Returned(nonce)]
    /\ UNCHANGED <<now, scope, session, invocations, raceVars, orch, guardianVars, eqc, engine, serviceVars>>

NonceNext ==
    \/ Tick
    \/ \E ttl \in 0..MaxTtl : NewSession(ttl)
    \/ \E n \in Nonces : IssueNonce(n)
    \/ \E n \in Nonces, t \in 0..MaxTime : ConsumeNonceAt(n, t)
    \/ \E n \in Nonces, ex \in GateExecutors :
          ExecuteGuarded(n, BaseRequest[1], BaseRequest[2], BaseRequest[3], ex)

SpecNonce == NonceInit /\ [][NonceNext]_vars

(***************************************************************************)
(* SpecPolicy: EQCPolicy.evaluate and EQCEngine.decide, stateless calls.    *)
(* Init draws the context, the actions apply the call with the default      *)
(* policy.                                                                  *)
(***************************************************************************)
DeviceTypes == {"mobile", "browser", "Browser", "extension", "browser_extension"}
PolicyActions == {"send", "mint", "issue"}
Assets == {"DGB", "DigiDollar"}
Amounts ==
    {1000, LargeAmountThreshold - 1, LargeAmountThreshold, LargeAmountThreshold + 1}

\* contexts with all four sub-records
CompleteContexts ==
    {EQCContext(a, asset, amount, dt, trusted, bio, pin, << >>) :
        a \in PolicyActions, asset \in Assets, amount \in Amounts,
        dt \in DeviceTypes, trusted \in BOOLEAN, bio \in BOOLEAN, pin \in BOOLEAN}

SubRecords == {"action", "device", "network", "user"}

\* ctx with the sub-records named in S set to None
Without(ctx, S) ==
    [ctx EXCEPT !.action = IF "action" \in S THEN None ELSE @,
                !.device = IF "device" \in S THEN None ELSE @,
                !.network = IF "network" \in S THEN None ELSE @,
                !.user = IF "user" \in S THEN None ELSE @]

MissingContexts ==
    {Without(c, S) : c \in {CtxSend2, CtxBrowser, CtxLarge},
                     S \in (SUBSET SubRecords) \ {{}}}

\* a context and a policy, no call made on them yet
EqcInput(ctx, rules) ==
    [op |-> "context", ctx |-> ctx, rules |-> rules, raised |-> "",
     verdict |-> NoVerdict]

PolicyInit ==
    /\ IdleGate /\ IdleRace /\ IdleRuntime /\ IdleGuardian /\ IdleHistory /\ IdleEngine /\ IdleService
    /\ \E ctx \in CompleteContexts \cup MissingContexts :
          eqc = EqcInput(ctx, DefaultRules)

\* EQCPolicy(rules).evaluate(ctx)
PolicyEvaluate ==
    /\ eqc.op = "context"
    /\ eqc' = [eqc EXCEPT !.op = "evaluate",
                          !.verdict = EQCPolicy_evaluate(eqc.rules, eqc.ctx)]
    /\ UNCHANGED <<now, gateVars, raceVars, orch, guardianVars, history, engine, serviceVars>>

\* EQCEngine().decide(ctx)
EngineDecide ==
    /\ eqc.op = "context"
    /\ eqc.rules = DefaultRules
    /\ LET d == EQCEngine_decide(eqc.ctx)
       IN  eqc' = [eqc EXCEPT !.op = "decide",
                              !.raised = d.raised,
                              !.verdict = IF d.raised = "" THEN d.verdict
                                          ELSE NoVerdict]
    /\ UNCHANGED <<now, gateVars, raceVars, orch, guardianVars, history, engine, serviceVars>>

PolicyNext == PolicyEvaluate \/ EngineDecide

SpecPolicy == PolicyInit /\ [][PolicyNext]_vars

(***************************************************************************)
(* SpecClassifiers: EQCEngine(classifiers=...) with a configured classifier *)
(* list; decide and evaluate are called on the same context.                *)
(***************************************************************************)
MaxClassifiers == 2

\* the two shipped classifiers, and two implementations of the Classifier
\* interface: one that returns its signals whatever the context, one whose
\* classify raises
ClassifierKinds == {"transaction", "device", "quiet", "faulty"}

\* the classifiers argument of EQCEngine: None, or a list
ClassifierLists ==
    {None} \cup
    {Some(l) : l \in UNION {[1..n -> ClassifierKinds] : n \in 0..MaxClassifiers}}

default_classifiers == <<"transaction", "device">>

\* c.classify(ctx): "" when it returns a result, else the exception raised
Classifier_classify(c, ctx) ==
    CASE c = "transaction" ->
            IF ctx.action = None \/ ctx.network = None
            THEN "AttributeError" ELSE ""
      [] c = "device" -> IF ctx.device = None THEN "AttributeError" ELSE ""
      [] c = "quiet" -> ""
      [] c = "faulty" -> "RuntimeError"

\* classify_all runs the classifiers in order, the first exception leaves it
classify_all(ctx, classifiers) ==
    LET clfs == IF classifiers = None THEN default_classifiers
                ELSE classifiers.some
        raising == {i \in DOMAIN clfs : Classifier_classify(clfs[i], ctx) # ""}
    IN  IF raising = {} THEN ""
        ELSE Classifier_classify(
                 clfs[CHOOSE i \in raising : \A j \in raising : i <= j], ctx)

\* EQCEngine(classifiers=classifiers).decide(ctx): classify, evaluate, hash
EQCEngine_decide_with(classifiers, ctx) ==
    LET err == classify_all(ctx, classifiers)
    IN  IF err # "" THEN [raised |-> err]
        ELSE IF ToDictRaises(ctx) THEN [raised |-> "AttributeError"]
        ELSE [raised |-> "", verdict |-> EQCPolicy_evaluate(DefaultRules, ctx),
              context_hash |-> context_hash(ctx)]

\* EQCEngine.evaluate: the policy's verdict, the classifiers are not run
EQCEngine_evaluate(ctx) == EQCPolicy_evaluate(DefaultRules, ctx)

ClassifierContexts ==
    {CtxSend2, CtxBrowser, CtxLarge} \cup
    {Without(c, S) : c \in {CtxSend2}, S \in {{"action"}, {"device"}, {"user"}}}

ClassifiersInit ==
    /\ IdleGate /\ IdleRace /\ IdleRuntime /\ IdleGuardian /\ IdleHistory /\ IdleEngine /\ IdleService
    /\ \E ctx \in ClassifierContexts, clfs \in ClassifierLists :
          eqc = [op |-> "engine", ctx |-> ctx, classifiers |-> clfs,
                 calls |-> {}, raised |-> "", verdict |-> NoVerdict,
                 evaluated |-> NoVerdict]

\* engine.decide(ctx)
EngineDecideWith ==
    /\ eqc.op = "engine"
    /\ "decide" \notin eqc.calls
    /\ LET d == EQCEngine_decide_with(eqc.classifiers, eqc.ctx)
       IN  eqc' = [eqc EXCEPT !.calls = @ \cup {"decide"},
                              !.raised = d.raised,
                              !.verdict = IF d.raised = "" THEN d.verdict
                                          ELSE NoVerdict]
    /\ UNCHANGED <<now, gateVars, raceVars, orch, guardianVars, history, engine, serviceVars>>

\* engine.evaluate(ctx)
EngineEvaluate ==
    /\ eqc.op = "engine"
    /\ "evaluate" \notin eqc.calls
    /\ eqc' = [eqc EXCEPT !.calls = @ \cup {"evaluate"},
                          !.evaluated = EQCEngine_evaluate(eqc.ctx)]
    /\ UNCHANGED <<now, gateVars, raceVars, orch, guardianVars, history, engine, serviceVars>>

ClassifiersNext == EngineDecideWith \/ EngineEvaluate

SpecClassifiers == ClassifiersInit /\ [][ClassifiersNext]_vars

(***************************************************************************)
(* SpecHash: EQCContext.context_hash on two Contexts, the first one hashed  *)
(* twice                                                                    *)
(***************************************************************************)
ExtraKeys == {"memo", "tag"}

ExtraValues == {PyStr("a"), PyInt(1), PyFloat(1)}

\* the dicts of up to MaxExtra entries, in every insertion order
ExtraDicts ==
    {e \in UNION {[1..k -> ExtraKeys \X ExtraValues] : k \in 0..MaxExtra} :
        \A i, j \in DOMAIN e : i # j => e[i][1] # e[j][1]}

HashContexts ==
    {[EQCContext("send", "DGB", amount, "mobile", TRUE, TRUE, TRUE, extra)
        EXCEPT !.timestamp = t] :
        amount \in {1000, 2000}, t \in 0..1, extra \in ExtraDicts}

NoHash == << >>

HashInit ==
    /\ IdleGate /\ IdleRace /\ IdleRuntime /\ IdleGuardian /\ IdleHistory /\ IdleEngine /\ IdleService
    /\ \E a \in HashContexts, b \in HashContexts :
          eqc = [op |-> "contexts", a |-> a, b |-> b, hash_a |-> NoHash,
                 hash_again |-> NoHash, hash_b |-> NoHash]

\* a.context_hash(); a.context_hash(); b.context_hash()
ContextHash ==
    /\ eqc.op = "contexts"
    /\ eqc' = [eqc EXCEPT !.op = "context_hash",
                          !.hash_a = context_hash(eqc.a),
                          !.hash_again = context_hash(eqc.a),
                          !.hash_b = context_hash(eqc.b)]
    /\ UNCHANGED <<now, gateVars, raceVars, orch, guardianVars, history, engine, serviceVars>>

HashNext == ContextHash

SpecHash == HashInit /\ [][HashNext]_vars

(***************************************************************************)
(* SpecRules: EQCPolicy.evaluate with every short list of rules             *)
(***************************************************************************)
RuleNames == {DefaultRules[i] : i \in DOMAIN DefaultRules} \cup CustomRules

RuleLists == UNION {[1..k -> RuleNames] : k \in 0..MaxRules}

RuleContexts == {CtxSend, CtxSend2, CtxBrowser, CtxMint, CtxLarge, CtxNewDev}

RulesInit ==
    /\ IdleGate /\ IdleRace /\ IdleRuntime /\ IdleGuardian /\ IdleHistory /\ IdleEngine /\ IdleService
    /\ \E ctx \in RuleContexts, rules \in RuleLists : eqc = EqcInput(ctx, rules)

RulesNext == PolicyEvaluate

SpecRules == RulesInit /\ [][RulesNext]_vars

(***************************************************************************)
(* SpecEvaluate: GuardianEngine.evaluate, a call that reads self.rules and  *)
(* changes nothing. Init draws the rules of the engine and the action       *)
(* context, the action applies the call.                                    *)
(***************************************************************************)

GuardianRuleOf(rule_scope, action, account_id, asset_id, threshold, min_approvals) ==
    [scope |-> rule_scope, action |-> action, account_id |-> account_id,
     asset_id |-> asset_id, threshold_value |-> threshold,
     min_approvals |-> min_approvals]

\* the rules an engine is configured with in the model: hard-block rules of
\* each scope and of another action, rules that always ask for approval, and
\* rules with a threshold
RuleShapes ==
    { GuardianRuleOf("WALLET", "SEND", "", "", None, 0),
      GuardianRuleOf("ACCOUNT", "SEND", "acct-1", "", None, 0),
      GuardianRuleOf("WALLET", "DD_MINT", "", "", None, 0),
      GuardianRuleOf("WALLET", "SEND", "", "", None, 1),
      GuardianRuleOf("WALLET", "SEND", "", "", Some(100), 1),
      GuardianRuleOf("WALLET", "SEND", "", "", Some(100), 0),
      GuardianRuleOf("WALLET", "SEND", "", "", Some(50), 1),
      GuardianRuleOf("ASSET", "SEND", "", "asset-1", Some(100), MaxMinApprovals) }

\* guardian_ids of the rule with id i: neighbouring rules name different lists
RuleGuardians(i) == IF i % 2 = 1 THEN <<"g1", "g2">> ELSE <<"g2", "g3">>

\* self.rules, a dict: the rules in insertion order, each under its own id
WithIds(shapes) ==
    [i \in DOMAIN shapes |->
        [id |-> i, guardian_ids |-> RuleGuardians(i),
         scope |-> shapes[i].scope, action |-> shapes[i].action,
         account_id |-> shapes[i].account_id, asset_id |-> shapes[i].asset_id,
         threshold_value |-> shapes[i].threshold_value,
         min_approvals |-> shapes[i].min_approvals]]

EngineRules == {WithIds(s) : s \in UNION {[1..k -> RuleShapes] : k \in 0..MaxEngineRules}}

GuardianActionContext(action, account_id, asset_id, value) ==
    [action |-> action, account_id |-> account_id, asset_id |-> asset_id,
     value |-> value]

ActionContexts ==
    {GuardianActionContext("SEND", account_id, "asset-1", value) :
        account_id \in {"acct-1", "acct-2"}, value \in {None, Some(50), Some(100)}}
    \cup {GuardianActionContext("DD_MINT", "acct-1", "asset-1", Some(100))}

RuleMatches(r, ctx) ==
    /\ r.action = ctx.action
    /\ ~(r.scope = "ACCOUNT" /\ r.account_id # ctx.account_id)
    /\ ~(r.scope = "ASSET" /\ r.asset_id # ctx.asset_id)

_find_matching_rules(rules, ctx) ==
    SelectSeq(rules, LAMBDA r : RuleMatches(r, ctx))

IsBlockRule(r) == r.threshold_value = None /\ r.min_approvals = 0

\* mutant: only the first matching rule is looked at
AnyBlockRule_FirstOnly(matching) ==
    matching # << >> /\ IsBlockRule(matching[1])

AnyBlockRule(matching) ==
    \E i \in DOMAIN matching : IsBlockRule(matching[i])

\* mutant: a value equal to the threshold does not ask for approval
RuleRequires_Strict(r, ctx) ==
    \/ r.threshold_value = None
    \/ (ctx.value # None /\ ctx.value.some > r.threshold_value.some)

\* whether rule r asks for approval of ctx
RuleRequires(r, ctx) ==
    \/ r.threshold_value = None
    \/ (ctx.value # None /\ ctx.value.some >= r.threshold_value.some)

\* mutant: only the first matching rule is asked
_requires_approval_FirstOnly(ctx, rules) ==
    IF rules # << >> /\ RuleRequires(rules[1], ctx) THEN rules[1] ELSE None

\* mutant: the last rule that asks for approval is returned
_requires_approval_Last(ctx, rules) ==
    LET hits == {i \in DOMAIN rules : RuleRequires(rules[i], ctx)}
    IN  IF hits = {} THEN None
        ELSE rules[CHOOSE i \in hits : \A j \in hits : i >= j]

\* _requires_approval: the first rule that asks for approval, None when none does
_requires_approval(ctx, rules) ==
    LET hits == {i \in DOMAIN rules : RuleRequires(rules[i], ctx)}
    IN  IF hits = {} THEN None
        ELSE rules[CHOOSE i \in hits : \A j \in hits : i <= j]

_build_approval_request(ctx, r) ==
    [rule_id |-> r.id, required_guardians |-> r.guardian_ids,
     decisions |-> << >>, status |-> "PENDING"]

\* GuardianEngine.evaluate: [verdict, request]
GuardianEngine_evaluate(rules, ctx) ==
    LET matching == _find_matching_rules(rules, ctx)
    IN  IF matching = << >>
        THEN [verdict |-> "ALLOW", request |-> None]
        ELSE IF AnyBlockRule(matching)
        THEN [verdict |-> "BLOCK", request |-> None]
        ELSE LET r == _requires_approval(ctx, matching)
             IN  IF r = None
                 THEN [verdict |-> "ALLOW", request |-> None]
                 ELSE [verdict |-> "REQUIRE_APPROVAL",
                       request |-> _build_approval_request(ctx, r)]

EvaluateInit ==
    /\ IdleGate /\ IdleRace /\ IdleRuntime /\ IdleGuardian /\ IdleHistory /\ IdleEqc
    /\ IdleService
    /\ \E rules \in EngineRules, ctx \in ActionContexts :
          engine = [op |-> "engine", rules |-> rules, ctx |-> ctx,
                    verdict |-> "", request |-> None]

\* engine.evaluate(ctx)
GuardianEvaluate ==
    /\ engine.op = "engine"
    /\ LET out == GuardianEngine_evaluate(engine.rules, engine.ctx)
       IN  engine' = [engine EXCEPT !.op = "evaluate",
                                    !.verdict = out.verdict,
                                    !.request = out.request]
    /\ UNCHANGED <<now, gateVars, raceVars, orch, guardianVars, history, eqc, serviceVars>>

EvaluateNext == GuardianEvaluate

SpecEvaluate == EvaluateInit /\ [][EvaluateNext]_vars

(***************************************************************************)
(* SpecOrder: GuardianEngine.evaluate on one catalog and on the same rules  *)
(* inserted into the dict in another order.                                 *)
(***************************************************************************)
OrderShapes ==
    { GuardianRuleOf("WALLET", "SEND", "", "", None, 0),
      GuardianRuleOf("ACCOUNT", "SEND", "acct-1", "", None, 0),
      GuardianRuleOf("WALLET", "SEND", "", "", None, 1),
      GuardianRuleOf("WALLET", "SEND", "", "", Some(100), 1),
      GuardianRuleOf("WALLET", "SEND", "", "", Some(50), 0) }

OrderRules ==
    {WithIds(s) : s \in UNION {[1..k -> OrderShapes] : k \in 0..MaxEngineRules}}

\* the orders in which n rules can stand in the dict
Orders(n) ==
    {f \in [1..n -> 1..n] : \A i, j \in 1..n : i # j => f[i] # f[j]}

\* the same rules, each under its own id, in the order f
Reordered(rules, f) == [i \in DOMAIN rules |-> rules[f[i]]]

OrderInit ==
    /\ IdleGate /\ IdleRace /\ IdleRuntime /\ IdleGuardian /\ IdleHistory /\ IdleEqc
    /\ IdleService
    /\ \E rules \in OrderRules, ctx \in ActionContexts :
          \E f \in Orders(Len(rules)) :
             engine = [op |-> "engine", rules |-> rules, ctx |-> ctx,
                       reordered |-> Reordered(rules, f),
                       verdict |-> "", verdict_reordered |-> ""]

\* GuardianEngine(guardians, rules).evaluate(ctx)
EvaluateCatalog ==
    /\ engine.op = "engine"
    /\ engine' = [engine EXCEPT
                     !.op = "evaluate",
                     !.verdict = GuardianEngine_evaluate(engine.rules, engine.ctx).verdict]
    /\ UNCHANGED <<now, gateVars, raceVars, orch, guardianVars, history, eqc, serviceVars>>

\* GuardianEngine(guardians, reordered).evaluate(ctx)
EvaluateReordered ==
    /\ engine.op = "evaluate"
    /\ engine' = [engine EXCEPT
                     !.op = "both",
                     !.verdict_reordered =
                        GuardianEngine_evaluate(engine.reordered, engine.ctx).verdict]
    /\ UNCHANGED <<now, gateVars, raceVars, orch, guardianVars, history, eqc, serviceVars>>

OrderNext == EvaluateCatalog \/ EvaluateReordered

SpecOrder == OrderInit /\ [][OrderNext]_vars

(***************************************************************************)
(* SpecWallet: WalletService.send_dgb (both call styles), mint_dd and       *)
(* redeem_dd on one service, with the guardian decision, the node manager   *)
(* and the node client the service was built with                          *)
(***************************************************************************)
\* what the guardian hands to the service: no decision (no guardian), or a
\* decision whose is_blocked() and needs_approval() answer as given
GuardianDecisions ==
    {None} \cup {[blocked |-> b, needs |-> n] : b \in BOOLEAN, n \in BOOLEAN}

_decision_blocked(decision) == decision # None /\ decision.blocked

\* mutant: a decision that needs approval is not recognised
_decision_needs_approval_Never(decision) == FALSE

_decision_needs_approval(decision) == decision # None /\ decision.needs

BroadcastMethods == {"broadcast_tx", "broadcast_transaction"}

\* the node client: the broadcast methods it has, whether a broadcast raises
NodeClients ==
    {[methods |-> m, fails |-> f] : m \in SUBSET BroadcastMethods, f \in BOOLEAN}

\* the node manager: it yields its client, or raises (no healthy node)
NodeManagers ==
    {[yields |-> "raises", client |-> [methods |-> {}, fails |-> FALSE]]}
    \cup {[yields |-> "client", client |-> c] : c \in NodeClients}

WalletOps == {"send_dgb(unit)", "send_dgb", "mint_dd", "redeem_dd"}

\* the broadcast method the call uses on the client, "" when the client has
\* none of them
BroadcastMethodOf(op, methods) ==
    IF op = "send_dgb(unit)" /\ "broadcast_transaction" \in methods
    THEN "broadcast_transaction"
    ELSE IF "broadcast_tx" \in methods THEN "broadcast_tx"
    ELSE ""

\* the names of the four outcomes: dict strings in the unit style, SendStatus
\* members otherwise
StatusOf(op, outcome) ==
    IF op = "send_dgb(unit)"
    THEN outcome
    ELSE CASE outcome = "blocked" -> "BLOCKED"
           [] outcome = "needs_approval" -> "PENDING_GUARDIAN"
           [] outcome = "broadcasted" -> "ALLOWED"
           [] outcome = "failed" -> "FAILED"

NoTxId == "None"

\* one call: [status, tx_id, raised, asked, broadcasts], asked and broadcasts
\* being the calls made on the node manager and on the client's broadcast
WalletService_call(op, decision, mgr) ==
    IF _decision_blocked(decision)
    THEN [status |-> StatusOf(op, "blocked"), tx_id |-> NoTxId, raised |-> "",
          asked |-> 0, broadcasts |-> 0]
    ELSE IF _decision_needs_approval(decision)
    THEN [status |-> StatusOf(op, "needs_approval"), tx_id |-> NoTxId,
          raised |-> "", asked |-> 0, broadcasts |-> 0]
    ELSE IF mgr.yields = "raises"
    THEN [status |-> "", tx_id |-> NoTxId, raised |-> "RuntimeError",
          asked |-> 1, broadcasts |-> 0]
    ELSE IF BroadcastMethodOf(op, mgr.client.methods) = ""
    THEN [status |-> StatusOf(op, "failed"), tx_id |-> NoTxId, raised |-> "",
          asked |-> 1, broadcasts |-> 0]
    ELSE IF mgr.client.fails
    THEN [status |-> StatusOf(op, "failed"), tx_id |-> NoTxId, raised |-> "",
          asked |-> 1, broadcasts |-> 1]
    ELSE [status |-> StatusOf(op, "broadcasted"), tx_id |-> "txid",
          raised |-> "", asked |-> 1, broadcasts |-> 1]

WalletInit ==
    /\ IdleGate /\ IdleRace /\ IdleRuntime /\ IdleGuardian /\ IdleHistory
    /\ IdleEqc /\ IdleEngine
    /\ manager = NoCall
    /\ \E d \in GuardianDecisions, m \in NodeManagers :
          wallet = [decision |-> d, node_manager |-> m, calls |-> 0,
                    asked |-> 0, broadcasts |-> 0, op |-> "none",
                    result |-> NoCall]

\* service.<op>(...); the guardian may have changed its mind since the last call
WalletCall(op, decision) ==
    /\ wallet.calls < MaxCalls
    /\ LET r == WalletService_call(op, decision, wallet.node_manager)
       IN  wallet' = [wallet EXCEPT !.decision = decision,
                                    !.calls = @ + 1,
                                    !.asked = @ + r.asked,
                                    !.broadcasts = @ + r.broadcasts,
                                    !.op = op,
                                    !.result = r]
    /\ UNCHANGED <<now, gateVars, raceVars, orch, guardianVars, history, eqc, engine, manager>>

SendDgbUnit == \E d \in GuardianDecisions : WalletCall("send_dgb(unit)", d)

SendDgb == \E d \in GuardianDecisions : WalletCall("send_dgb", d)

MintDd == \E d \in GuardianDecisions : WalletCall("mint_dd", d)

RedeemDd == \E d \in GuardianDecisions : WalletCall("redeem_dd", d)

WalletNext == SendDgbUnit \/ SendDgb \/ MintDd \/ RedeemDd

SpecWallet == WalletInit /\ [][WalletNext]_vars

(***************************************************************************)
(* SpecNodes: NodeManager.probe_all and get_best_node on one manager. A     *)
(* probe of a node returns a block height or raises NodeClientError, as the *)
(* node answers at that moment.                                             *)
(***************************************************************************)
DIGIMOBILE_NAME == "digi-mobile"

DigiMobileBoost == 1000

\* an attribute the config does not have
NoAttr == "<absent>"

NodeConfig(id, name, priority) == [id |-> id, name |-> name, priority |-> priority]

\* the configs of the model: two of equal priority, a lower one, one without a
\* priority attribute, and the Digi-Mobile node
NodeConfigs ==
    { NodeConfig("a", NoAttr, Some(5)),
      NodeConfig("b", NoAttr, Some(5)),
      NodeConfig("c", "c-name", Some(1)),
      NodeConfig("d", NoAttr, None),
      NodeConfig("m", DIGIMOBILE_NAME, Some(0)) }

\* the lists of up to MaxNodes different configs
NodeLists ==
    {l \in UNION {[1..k -> NodeConfigs] : k \in 0..MaxNodes} :
        \A i, j \in DOMAIN l : i # j => l[i] # l[j]}

\* the `priorities` argument: a dict from a name or an id to a priority, as a
\* set of <<key, priority>> pairs
PriorityOverrides ==
    { {}, {<<"c", 9>>}, {<<"c-name", 5>>, <<"c", 0>>}, {<<DIGIMOBILE_NAME, 0 - 995>>} }

HasKey(priorities, key) == \E e \in priorities : e[1] = key

Lookup(priorities, key) == (CHOOSE e \in priorities : e[1] = key)[2]

_effective_priority(priorities, cfg) ==
    LET own == IF cfg.priority # None THEN cfg.priority.some ELSE 0
        base == IF cfg.name # NoAttr /\ HasKey(priorities, cfg.name)
                THEN Lookup(priorities, cfg.name)
                ELSE IF HasKey(priorities, cfg.id)
                THEN Lookup(priorities, cfg.id)
                ELSE own
    IN  IF cfg.name = DIGIMOBILE_NAME THEN base + DigiMobileBoost ELSE base

NodeStatus(config, healthy) == [config |-> config, healthy |-> healthy]

NoConfig == [id |-> "None"]

\* mutant: on a tie the last of the best nodes wins
BestIndex_LastOnTie(priorities, statuses, healthy) ==
    CHOOSE i \in healthy :
        \A j \in healthy :
            LET pi == _effective_priority(priorities, statuses[i].config)
                pj == _effective_priority(priorities, statuses[j].config)
            IN  pj < pi \/ (pj = pi /\ j <= i)

\* max(healthy_nodes, key=sort_key): the first node of the highest key
BestIndex(priorities, statuses, healthy) ==
    CHOOSE i \in healthy :
        \A j \in healthy :
            LET pi == _effective_priority(priorities, statuses[i].config)
                pj == _effective_priority(priorities, statuses[j].config)
            IN  pj < pi \/ (pj = pi /\ i <= j)

\* the config of the best healthy node, NoConfig when no node is healthy
_select_best_config(priorities, statuses) ==
    LET healthy == {i \in DOMAIN statuses : statuses[i].healthy}
    IN  IF healthy = {} THEN NoConfig
        ELSE statuses[BestIndex(priorities, statuses, healthy)].config

\* probe_all with the answers of the nodes: [status, active]
probe_all(mgr, answers) ==
    LET statuses == [i \in DOMAIN mgr.nodes |-> NodeStatus(mgr.nodes[i], answers[i])]
    IN  [status |-> statuses,
         active |-> _select_best_config(mgr.priorities, statuses)]

\* get_best_node: [status, active, raised, result]
get_best_node(mgr, answers) ==
    IF mgr.nodes = << >>
    THEN [status |-> mgr.status, active |-> mgr.active,
          raised |-> "RuntimeError", result |-> NoConfig]
    ELSE LET probed == IF mgr.status = << >> \/ Len(mgr.status) # Len(mgr.nodes)
                       THEN probe_all(mgr, answers)
                       ELSE [status |-> mgr.status, active |-> mgr.active]
             best == _select_best_config(mgr.priorities, probed.status)
         IN  IF best = NoConfig
             THEN [status |-> probed.status, active |-> probed.active,
                   raised |-> "RuntimeError", result |-> NoConfig]
             ELSE [status |-> probed.status, active |-> best,
                   raised |-> "", result |-> best]

NodesInit ==
    /\ IdleGate /\ IdleRace /\ IdleRuntime /\ IdleGuardian /\ IdleHistory
    /\ IdleEqc /\ IdleEngine
    /\ wallet = NoCall
    /\ \E nodes \in NodeLists, priorities \in PriorityOverrides :
          manager = [nodes |-> nodes, priorities |-> priorities,
                     status |-> << >>, active |-> NoConfig, op |-> "none",
                     raised |-> "", result |-> NoConfig]

\* manager.probe_all()
ProbeAll ==
    /\ \E answers \in [DOMAIN manager.nodes -> BOOLEAN] :
          LET p == probe_all(manager, answers)
          IN  manager' = [manager EXCEPT !.status = p.status,
                                         !.active = p.active,
                                         !.op = "probe_all",
                                         !.raised = "",
                                         !.result = NoConfig]
    /\ UNCHANGED <<now, gateVars, raceVars, orch, guardianVars, history, eqc, engine, wallet>>

\* manager.get_best_node()
GetBestNode ==
    /\ \E answers \in [DOMAIN manager.nodes -> BOOLEAN] :
          LET g == get_best_node(manager, answers)
          IN  manager' = [manager EXCEPT !.status = g.status,
                                         !.active = g.active,
                                         !.op = "get_best_node",
                                         !.raised = g.raised,
                                         !.result = g.result]
    /\ UNCHANGED <<now, gateVars, raceVars, orch, guardianVars, history, eqc, engine, wallet>>

NodesNext == ProbeAll \/ GetBestNode

SpecNodes == NodesInit /\ [][NodesNext]_vars

(***************************************************************************)
(* Properties of the gate                                                  *)
(***************************************************************************)
\* two action names equal up to letter case
SameIgnoringCase(a, b) == a = b \/ {a, b} = {"send", "SEND"}

InWindow(lo, t, hi) == lo <= t /\ t <= hi

\* the last call presented the wallet_id, action and context of the scope
PresentedMatches ==
    /\ last.wallet_id = scope.wallet_id
    /\ SameIgnoringCase(last.action, scope.action)
    /\ context_hash(last.ctx) = scope.context_hash

\* C1 as stated: with an active session, a fresh nonce and matching wallet_id,
\* action and context, execute_guarded succeeds (for an executor that returns)
\* and runs the executor once; a call presenting a consumed nonce fails with a
\* guard error and runs nothing.
C1_AsStated ==
    last.op = "execute_guarded" =>
        /\ ( /\ last.fresh
             /\ InWindow(session.created_at, last.at, session.expires_at)
             /\ PresentedMatches
             /\ last.ex.kind = "return" )
           => ( /\ last.outcome = last.ex
                /\ last.invoked = 1
                /\ invocations[last.nonce] = 1 )
        /\ ~last.fresh => (last.outcome = GuardError /\ last.invoked = 0)

\* C1 (amended): the same, for a call made inside the scope's time window
\* [not_before, expires_at]: the first call with a fresh nonce succeeds and runs
\* the executor exactly once, every later call with that nonce fails with a
\* guard error and does not run the executor.
C1_ExecutesOnceThenBlocksReplay ==
    last.op = "execute_guarded" =>
        /\ ( /\ last.fresh
             /\ InWindow(session.created_at, last.at, session.expires_at)
             /\ InWindow(scope.not_before, last.at, scope.expires_at)
             /\ PresentedMatches
             /\ last.ex.kind = "return" )
           => ( /\ last.outcome = last.ex
                /\ last.invoked = 1
                /\ invocations[last.nonce] = 1 )
        /\ ~last.fresh => ( /\ last.outcome = GuardError
                            /\ last.invoked = 0
                            /\ invocations[last.nonce] <= 1 )

\* a replay of a nonce whose first presentation ran the executor
C1_Witness ==
    /\ last.op = "execute_guarded"
    /\ ~last.fresh
    /\ PresentedMatches
    /\ InWindow(scope.not_before, last.at, scope.expires_at)
    /\ InWindow(session.created_at, last.at, session.expires_at)
    /\ invocations[last.nonce] = 1
    /\ last.outcome = GuardError

\* C4: bind_scope_from_eqc with a DENY or STEP_UP decision raises WSQKBindError
\* and yields no scope, whatever wallet_id, action and ttl_seconds are.
C4_BindRequiresAllow ==
    ( /\ last.op = "bind_scope_from_eqc"
      /\ last.decision.verdict.type \in {"DENY", "STEP_UP"} )
    => ( /\ last.outcome.kind = "raise"
         /\ last.outcome.value = "WSQKBindError"
         /\ scope = NoScope )

C4_Witness ==
    /\ last.op = "bind_scope_from_eqc"
    /\ last.decision.verdict.type = "STEP_UP"
    /\ last.ttl = -1
    /\ last.outcome.kind = "raise"

\* C9: a presented context whose hash differs from scope.context_hash makes
\* execute_with_scope and execute_guarded fail without running the executor.
C9_ContextMismatchFails ==
    ( /\ last.op \in {"execute_with_scope", "execute_guarded"}
      /\ context_hash(last.ctx) # scope.context_hash )
    => ( /\ last.invoked = 0
         /\ last.outcome = IF last.op = "execute_guarded" THEN GuardError
                           ELSE Raised("WSQKExecutionError") )

\* a guarded call in which only the context differs
C9_Witness ==
    /\ last.op = "execute_guarded"
    /\ context_hash(last.ctx) # scope.context_hash
    /\ last.wallet_id = scope.wallet_id
    /\ SameIgnoringCase(last.action, scope.action)
    /\ InWindow(scope.not_before, last.at, scope.expires_at)
    /\ InWindow(session.created_at, last.at, session.expires_at)
    /\ last.fresh
    /\ last.outcome = GuardError

\* C10: execute_with_scope runs the executor exactly once and hands back its
\* outcome when not_before <= now <= expires_at, the wallet_id is equal, the
\* action is equal ignoring case and the context hash is equal; in every other
\* case it raises WSQKExecutionError and the executor does not run.
C10_ExecutesIffScopeHolds ==
    last.op = "execute_with_scope" =>
        IF /\ InWindow(scope.not_before, last.at, scope.expires_at)
           /\ PresentedMatches
        THEN last.invoked = 1 /\ last.outcome = last.ex
        ELSE last.invoked = 0 /\ last.outcome = Raised("WSQKExecutionError")

\* a call at the last second of the window, the action in another letter case
C10_Witness ==
    /\ last.op = "execute_with_scope"
    /\ last.at = scope.expires_at
    /\ last.action # scope.action
    /\ PresentedMatches
    /\ last.invoked = 1
    /\ last.outcome = Returned("result-1")

(***************************************************************************)
(* Properties of the orchestrator                                          *)
(***************************************************************************)
\* C3: RuntimeOrchestrator.execute runs the executor only when the decision of
\* that call is ALLOW; on DENY or STEP_UP it raises ExecutionBlocked and the
\* executor runs zero times, with use_wsqk true or false.
C3_NoExecutionWithoutAllow ==
    orch.op = "done" =>
        /\ orch.invoked > 0 => orch.verdict = "ALLOW"
        /\ orch.verdict \in {"DENY", "STEP_UP"}
           => (orch.outcome = Blocked /\ orch.invoked = 0)

\* a STEP_UP decision on the WSQK path with wallet_id and action given
C3_Witness ==
    /\ orch.op = "done"
    /\ orch.verdict = "STEP_UP"
    /\ orch.use_wsqk
    /\ orch.wallet_id # "" /\ orch.action # ""
    /\ orch.outcome = Blocked
    /\ orch.invoked = 0

(***************************************************************************)
(* Properties of concurrent callers                                        *)
(***************************************************************************)
\* C2: two concurrent execute_guarded calls with the same session and the same
\* nonce never both succeed, and the executor never runs twice for that nonce,
\* under every interleaving.
C2_AtMostOnePerNonce ==
    ( /\ \A c \in Callers : pc[c] = "done"
      /\ frame["caller-1"].nonce = frame["caller-2"].nonce )
    => ( /\ invocations[frame["caller-1"].nonce] <= 1
         /\ ~ \A c \in Callers : frame[c].outcome.kind = "return" )

(***************************************************************************)
(* Properties of the guardian approval workflow                            *)
(***************************************************************************)
\* the guardians whose latest vote is APPROVED
Approvers == {g \in Guardians : ballots.latest[g] = "APPROVED"}

\* C5: with a rule of min_approvals = n and only APPROVED votes applied, the
\* status is PENDING while fewer than n distinct guardians have voted APPROVED
\* and is APPROVED from the call that records the n-th distinct guardian on.
C5_ApprovedAtQuorum ==
    (rule # None /\ ballots.only_approved /\ ballots.vote # NoCall)
    => IF Cardinality(Approvers) < rule.min_approvals
       THEN request.status = "PENDING"
       ELSE request.status = "APPROVED"

\* the second distinct guardian's APPROVED vote reaches a quorum of two
C5_Witness ==
    /\ rule = GuardianRule(2)
    /\ ballots.only_approved
    /\ ballots.vote # NoCall
    /\ ballots.vote.before = "PENDING"
    /\ ballots.vote.previous = "none"
    /\ Cardinality(Approvers) = 2
    /\ request.status = "APPROVED"

\* C6: right after apply_decision with status REJECTED the request status is
\* REJECTED, whatever the request was before, APPROVED with the quorum met
\* included.
C6_RejectedOverrides ==
    (ballots.vote # NoCall /\ ballots.vote.status = "REJECTED")
    => request.status = "REJECTED"

\* a REJECTED vote on a request that was APPROVED and still holds a quorum of
\* APPROVED decisions
C6_Witness ==
    /\ rule # None
    /\ ballots.vote # NoCall
    /\ ballots.vote.status = "REJECTED"
    /\ ballots.vote.before = "APPROVED"
    /\ rule.min_approvals >= 1
    /\ approvals_count(request) >= rule.min_approvals
    /\ request.status = "REJECTED"

\* C7: once the status is APPROVED or REJECTED no later apply_decision call
\* changes it.
C7_TerminalStatus ==
    [][request.status \in {"APPROVED", "REJECTED"}
       => request'.status = request.status]_vars

\* C8: the decision list holds at most one decision per guardian, that
\* guardian's latest vote, so a guardian counts once toward min_approvals
\* however often it votes APPROVED.
C8_OneDecisionPerGuardian ==
    /\ \A i, j \in 1..Len(request.decisions) :
          request.decisions[i].guardian_id = request.decisions[j].guardian_id
          => i = j
    /\ \A i \in 1..Len(request.decisions) :
          ballots.latest[request.decisions[i].guardian_id]
             = request.decisions[i].status
    /\ \A g \in Guardians :
          ballots.latest[g] # "none"
          => \E i \in 1..Len(request.decisions) :
                request.decisions[i].guardian_id = g
    /\ approvals_count(request) = Cardinality(Approvers)

\* one guardian votes APPROVED again and is still the only approval
C8_Witness ==
    /\ ballots.vote # NoCall
    /\ ballots.vote.status = "APPROVED"
    /\ ballots.vote.previous = "APPROVED"
    /\ Len(request.decisions) = 1
    /\ approvals_count(request) = 1
    /\ rule = GuardianRule(2)
    /\ request.status = "PENDING"

(***************************************************************************)
(* Properties of repeated execute_guarded calls                            *)
(***************************************************************************)
\* the last execute_guarded call had everything but, possibly, its nonce: an
\* active session, the scope inside its window, matching wallet_id, action and
\* context, and an executor that returns
OnlyNonceInQuestion ==
    /\ last.op = "execute_guarded"
    /\ Session_is_active(session, last.at)
    /\ InWindow(scope.not_before, last.at, scope.expires_at)
    /\ PresentedMatches
    /\ last.ex.kind = "return"

\* C11: after one successful execute_guarded with a scope, no later
\* execute_guarded presenting that scope succeeds.
C11_ScopeSingleUse ==
    (last.op = "execute_guarded" /\ last.before.succeeded)
    => last.outcome.kind # "return"

\* C12 as stated: after an execute_guarded call has failed, no later call with
\* the same scope, session and nonce succeeds.
C12_AsStated ==
    (last.op = "execute_guarded" /\ last.before.failed[last.nonce])
    => last.outcome.kind # "return"

\* C12: when every call passes a `now` that is not before the session's
\* creation and not before the `now` of the call before it, no call succeeds
\* with a nonce that an earlier call failed with.
C12_FailureIsTerminalOnAClock ==
    (/\ last.op = "execute_guarded"
     /\ last.before.failed[last.nonce]
     /\ history.clocked)
    => last.outcome.kind # "return"

\* a retry that fails for its nonce alone, after a failure with that nonce
C12_Witness ==
    /\ OnlyNonceInQuestion
    /\ last.before.failed[last.nonce]
    /\ ~last.before.raised[last.nonce]
    /\ history.clocked
    /\ last.outcome = GuardError
    /\ last.invoked = 0

\* C13: once the executor has raised inside execute_guarded the nonce stays
\* consumed: the executor has run once for it, and a later call with that nonce
\* fails without invoking the executor.
C13_RaisedNonceStaysConsumed ==
    /\ \A n \in Nonces :
          history.raised[n] => (n \in session.used_nonces /\ invocations[n] = 1)
    /\ (last.op = "execute_guarded" /\ last.before.raised[last.nonce])
       => (last.outcome = GuardError /\ last.invoked = 0)

\* a retry, with everything else in order, of a nonce whose executor raised
C13_Witness ==
    /\ OnlyNonceInQuestion
    /\ last.before.raised[last.nonce]
    /\ last.outcome = GuardError
    /\ last.invoked = 0
    /\ invocations[last.nonce] = 1

\* C14: an exception raised by the executor is the outcome of execute_with_scope
\* and of execute_guarded, unchanged, whatever its type.
C14_ExecutorExceptionUnchanged ==
    (/\ last.op \in {"execute_with_scope", "execute_guarded"}
     /\ last.invoked = 1
     /\ last.ex.kind = "raise")
    => last.outcome = last.ex

(***************************************************************************)
(* Properties of the policy decision engine                                *)
(***************************************************************************)
AllPresent(ctx) ==
    ctx.action # None /\ ctx.device # None /\ ctx.network # None /\ ctx.user # None

HardBlockedTypes == {"browser", "extension", "browser_extension"}

Decided == eqc.op = "decide" /\ AllPresent(eqc.ctx)

\* C15: for every context whose device_type is browser, extension or
\* browser_extension, decide with the default policy returns DENY, whatever the
\* action, asset, amount, trust flag and user fields.
C15_BrowserAndExtensionDenied ==
    (Decided /\ eqc.ctx.device.device_type \in HardBlockedTypes)
    => (eqc.raised = "" /\ eqc.verdict.type = "DENY")

\* a browser_extension context that also matches every step-up rule
C15_Witness ==
    /\ Decided
    /\ eqc.ctx.device.device_type = "browser_extension"
    /\ eqc.ctx.action.action = "mint"
    /\ eqc.ctx.action.amount >= LargeAmountThreshold
    /\ ~eqc.ctx.device.trusted
    /\ eqc.verdict.type = "DENY"

\* C16 as stated: for every context with amount >= 10,000,000, decide with the
\* default policy returns STEP_UP with a non-empty requirement list.
C16_AsStated ==
    (Decided /\ eqc.ctx.action.amount >= LargeAmountThreshold)
    => (eqc.raised = "" /\ eqc.verdict.type = "STEP_UP" /\ eqc.verdict.step_up # << >>)

\* C16: for every context with amount >= 10,000,000 whose device_type is not
\* browser, extension or browser_extension in any letter case, decide with the
\* default policy returns STEP_UP with a non-empty requirement list.
C16_LargeAmountStepsUp ==
    (/\ Decided
     /\ eqc.ctx.action.amount >= LargeAmountThreshold
     /\ Lower(eqc.ctx.device.device_type) \notin HardBlockedTypes)
    => (eqc.raised = "" /\ eqc.verdict.type = "STEP_UP" /\ eqc.verdict.step_up # << >>)

\* the threshold amount itself, on a trusted device and for a plain send, so
\* that the large-amount rule is the one that decides
C16_Witness ==
    /\ Decided
    /\ eqc.ctx.action.amount = LargeAmountThreshold
    /\ eqc.ctx.action.action = "send"
    /\ eqc.ctx.device.device_type = "mobile"
    /\ eqc.ctx.device.trusted
    /\ eqc.verdict.type = "STEP_UP"
    /\ eqc.verdict.reasons[2].code = "LARGE_AMOUNT"
    /\ eqc.verdict.step_up = <<"local_confirmation">>

\* C17: the requirement list of a STEP_UP verdict of the default policy is a
\* function of (biometric_available, pin_set) alone: (True, True) gives
\* [biometric, pin], (False, True) gives [pin], (False, False) gives
\* [local_confirmation], the remaining pair (True, False) gives [biometric]; it
\* is never empty.
C17_StepUpRequirements ==
    (eqc.op \in {"evaluate", "decide"} /\ eqc.verdict.type = "STEP_UP")
    => LET bio == eqc.ctx.user.biometric_available
           pin == eqc.ctx.user.pin_set
       IN  /\ eqc.verdict.step_up # << >>
           /\ (bio /\ pin) => eqc.verdict.step_up = <<"biometric", "pin">>
           /\ (~bio /\ pin) => eqc.verdict.step_up = <<"pin">>
           /\ (~bio /\ ~pin) => eqc.verdict.step_up = <<"local_confirmation">>
           /\ (bio /\ ~pin) => eqc.verdict.step_up = <<"biometric">>

\* a step-up for a user with biometric and pin
C17_Witness ==
    /\ eqc.op = "evaluate"
    /\ eqc.verdict.type = "STEP_UP"
    /\ eqc.ctx.user.biometric_available
    /\ eqc.ctx.user.pin_set
    /\ eqc.verdict.step_up = <<"biometric", "pin">>

\* the index of the first rule of the list whose predicate holds and whose
\* outcome is not None; 0 when there is none
FirstTerminal(rules, ctx) ==
    LET hits == {i \in DOMAIN rules :
                    RuleWhen(rules[i], ctx) /\ RuleVerdict(rules[i], ctx) # NoVerdict}
    IN  IF hits = {} THEN 0 ELSE CHOOSE i \in hits : \A j \in hits : i <= j

\* v is the outcome out of the rule named name, as evaluate hands it on: the
\* same type and requirements, the same reasons, with a POLICY_RULE_MATCH reason
\* naming the rule put in front when out carries none
HandsOn(v, out, name) ==
    /\ v.type = out.type
    /\ v.step_up = out.step_up
    /\ \/ v.reasons = out.reasons /\ HasRuleMatchReason(out)
       \/ v.reasons = <<Reason("POLICY_RULE_MATCH", name)>> \o out.reasons

\* C18: evaluate returns the outcome of the first rule, in list order, whose
\* predicate holds and whose outcome is not None, whatever rules follow it;
\* when no rule yields an outcome the result is ALLOW with the single reason
\* POLICY_RULE_MATCH whose rule detail is DEFAULT_ALLOW.
C18_FirstTerminalRuleWins ==
    (eqc.op = "evaluate" /\ AllPresent(eqc.ctx))
    => LET k == FirstTerminal(eqc.rules, eqc.ctx)
       IN  IF k = 0
           THEN eqc.verdict =
                   Verdict("ALLOW", <<Reason("POLICY_RULE_MATCH", "DEFAULT_ALLOW")>>,
                           << >>)
           ELSE HandsOn(eqc.verdict, RuleVerdict(eqc.rules[k], eqc.ctx), eqc.rules[k])

\* a rule whose outcome is None is passed over, the next one decides, and a
\* rule after it that would allow is not taken
C18_Witness ==
    /\ eqc.op = "evaluate"
    /\ eqc.rules = <<"CUSTOM_CONTINUE", "CUSTOM_DENY", "CUSTOM_ALLOW_TAGGED">>
    /\ eqc.ctx = CtxLarge
    /\ eqc.verdict.type = "DENY"
    /\ eqc.verdict.reasons[1] = Reason("POLICY_RULE_MATCH", "CUSTOM_DENY")

\* C19: for a context with any of the four sub-records missing, evaluate and
\* decide return DENY with reason MISSING_CONTEXT and do not raise.
C19_MissingContextDenied ==
    (eqc.op \in {"evaluate", "decide"} /\ ~AllPresent(eqc.ctx))
    => /\ eqc.raised = ""
       /\ eqc.verdict.type = "DENY"
       /\ \E i \in DOMAIN eqc.verdict.reasons :
             eqc.verdict.reasons[i].code = "MISSING_CONTEXT"

(***************************************************************************)
(* Properties of GuardianEngine.evaluate                                   *)
(***************************************************************************)
\* the positions, in self.rules, of the hard-block rules that match the context
MatchingBlockRules ==
    {i \in DOMAIN engine.rules :
        RuleMatches(engine.rules[i], engine.ctx) /\ IsBlockRule(engine.rules[i])}

\* C20: evaluate returns (BLOCK, no request) whenever at least one matching
\* rule has no threshold and min_approvals = 0, at whatever position and
\* whatever the other matching rules are.
C20_HardBlockWins ==
    (engine.op = "evaluate" /\ MatchingBlockRules # {})
    => (engine.verdict = "BLOCK" /\ engine.request = None)

\* the hard-block rule comes last, after a rule that alone would ask for
\* approval
C20_Witness ==
    /\ engine.op = "evaluate"
    /\ Len(engine.rules) >= 2
    /\ MatchingBlockRules = {Len(engine.rules)}
    /\ RuleMatches(engine.rules[1], engine.ctx)
    /\ RuleRequires(engine.rules[1], engine.ctx)
    /\ engine.verdict = "BLOCK"
    /\ engine.request = None

\* the rules of the engine that match the action, in the order of self.rules
MatchingRules == _find_matching_rules(engine.rules, engine.ctx)

\* the thresholds of the matching rules that have one
MatchingThresholds ==
    {MatchingRules[i].threshold_value.some :
        i \in {j \in DOMAIN MatchingRules : MatchingRules[j].threshold_value # None}}

\* the value reaches the lowest threshold among the matching rules, or some
\* matching rule has no threshold
ApprovalCalledFor ==
    \/ \E i \in DOMAIN MatchingRules : MatchingRules[i].threshold_value = None
    \/ /\ engine.ctx.value # None
       /\ MatchingThresholds # {}
       /\ \E low \in MatchingThresholds :
             /\ \A t \in MatchingThresholds : low <= t
             /\ engine.ctx.value.some >= low

\* C21: when no matching rule is a hard block, evaluate returns (ALLOW, no
\* request) if no rule matches or every matching rule has a threshold above
\* the value, and otherwise returns REQUIRE_APPROVAL with a new request whose
\* status is PENDING and whose decision list is empty.
C21_ThresholdDecides ==
    (engine.op = "evaluate" /\ MatchingBlockRules = {})
    => IF ApprovalCalledFor
       THEN /\ engine.verdict = "REQUIRE_APPROVAL"
            /\ engine.request # None
            /\ engine.request.status = "PENDING"
            /\ engine.request.decisions = << >>
       ELSE /\ engine.verdict = "ALLOW"
            /\ engine.request = None

\* the value equals the lowest threshold, which belongs to a rule that is not
\* the first matching one
C21_Witness ==
    /\ engine.op = "evaluate"
    /\ MatchingBlockRules = {}
    /\ Len(MatchingRules) >= 2
    /\ MatchingRules[1].threshold_value = Some(100)
    /\ engine.ctx.value = Some(50)
    /\ MatchingThresholds = {50, 100}
    /\ engine.verdict = "REQUIRE_APPROVAL"
    /\ engine.request.status = "PENDING"

\* the keys of a dict
Keys(extra) == {extra[i][1] : i \in DOMAIN extra}

\* extra[key]
ValueAt(extra, key) == extra[CHOOSE i \in DOMAIN extra : extra[i][1] = key][2]

\* dict equality of Python: the same keys, each with an equal value
DictEq(e1, e2) ==
    /\ Keys(e1) = Keys(e2)
    /\ \A k \in Keys(e1) : PyEq(ValueAt(e1, k), ValueAt(e2, k))

\* every value of e1 has the type of the value e2 holds under that key
SameTypes(e1, e2) ==
    \A k \in Keys(e1) \cap Keys(e2) : ValueAt(e1, k).py = ValueAt(e2, k).py

\* the two Contexts are equal: equal sub-records and timestamp, equal extra
EqualContexts ==
    /\ eqc.a.action = eqc.b.action
    /\ eqc.a.device = eqc.b.device
    /\ eqc.a.network = eqc.b.network
    /\ eqc.a.user = eqc.b.user
    /\ eqc.a.timestamp = eqc.b.timestamp
    /\ DictEq(eqc.a.extra, eqc.b.extra)

SerialVotes(first, second) ==
    apply_decision(apply_decision(ballots.origin, rule, first, frame[first].status),
                   rule, second, frame[second].status)

\* guardian g's vote is in the decision list
VoteRecorded(g) ==
    \E i \in DOMAIN request.decisions :
        request.decisions[i] = ApprovalDecision(g, frame[g].status)

\* C23: two apply_decision calls by different guardians that run concurrently
\* on one request behave as if run one after the other: afterwards both votes
\* are in the decision list and the status is one that some serial order of
\* the two calls gives.
C23_ConcurrentVotesSerialize ==
    (\A g \in Voters : pc[g] = "done") =>
        /\ \A g \in Voters : VoteRecorded(g)
        /\ request.status \in {SerialVotes("g1", "g2").status,
                               SerialVotes("g2", "g1").status}

\* C24: a successful bind_scope_from_eqc returns a scope whose context_hash
\* equals decision.context_hash, whose wallet_id and action are the ones passed
\* in, whose not_before is the current time and whose expires_at is not_before
\* + ttl_seconds (60 by default).
C24_BoundScopeFields ==
    (last.op = "bind_scope_from_eqc" /\ last.outcome.kind = "return") =>
        /\ last.decision.verdict.type = "ALLOW"
        /\ scope = last.outcome.value
        /\ scope.context_hash = last.decision.context_hash
        /\ scope.wallet_id = last.wallet_id
        /\ scope.action = last.action
        /\ scope.not_before = last.at
        /\ scope.expires_at = scope.not_before + last.ttl

\* a bind after the clock has advanced, with the default ttl_seconds
C24_Witness ==
    /\ last.op = "bind_scope_from_eqc"
    /\ last.outcome.kind = "return"
    /\ last.at > 0
    /\ last.ttl = DefaultTtlSeconds
    /\ last.action = "SEND"
    /\ scope.not_before = last.at
    /\ scope.expires_at = last.at + 60

\* the last call was made under a decision that blocks or needs approval
Withheld ==
    /\ wallet.decision # None
    /\ (wallet.decision.blocked \/ wallet.decision.needs)

\* the withheld call returned the blocked or needs-approval status, without a
\* transaction id, and touched neither the node manager nor the client
C25_NothingSent ==
    /\ wallet.result.asked = 0
    /\ wallet.result.broadcasts = 0
    /\ wallet.result.raised = ""
    /\ wallet.result.tx_id = NoTxId
    /\ wallet.result.status =
          StatusOf(wallet.op, IF wallet.decision.blocked THEN "blocked"
                              ELSE "needs_approval")

HealthyNodes == {i \in DOMAIN manager.status : manager.status[i].healthy}

PriorityAt(i) == _effective_priority(manager.priorities, manager.status[i].config)

rejections_count(req) ==
    Len(SelectSeq(req.decisions, LAMBDA d : d.status = "REJECTED"))

\* C27: after every apply_decision call, a request whose decision list holds
\* at least one REJECTED vote has the status REJECTED, whatever the other
\* guardians voted before or after it.
C27_RejectedVoteStands ==
    (ballots.vote # NoCall /\ rejections_count(request) >= 1)
    => request.status = "REJECTED"

\* the request names rule r
Names(req, r) ==
    /\ req.rule_id = r.id
    /\ req.required_guardians = r.guardian_ids

\* the positions, in the list of matching rules, of the rules that ask for
\* approval of the action
AskingRules ==
    {i \in DOMAIN MatchingRules : RuleRequires(MatchingRules[i], engine.ctx)}

\* C28 as stated: the ApprovalRequest built by evaluate carries the id and the
\* guardian list of the first rule in the list of rules that match the action.
C28_AsStated ==
    (engine.op = "evaluate" /\ engine.verdict = "REQUIRE_APPROVAL")
    => Names(engine.request, MatchingRules[1])

\* C28 (amended): the request carries the id and the guardian list of the
\* first matching rule that asks for approval, a rule without a threshold or
\* with a threshold the value reaches.
C28_NamesFirstAskingRule ==
    (engine.op = "evaluate" /\ engine.verdict = "REQUIRE_APPROVAL")
    => /\ AskingRules # {}
       /\ \E i \in AskingRules :
             /\ \A j \in AskingRules : i <= j
             /\ Names(engine.request, MatchingRules[i])

\* the first matching rule has a threshold above the value, the second and the
\* third ask for approval: the request names the second
C28_Witness ==
    /\ engine.op = "evaluate"
    /\ engine.verdict = "REQUIRE_APPROVAL"
    /\ AskingRules = {2, 3}
    /\ Names(engine.request, MatchingRules[2])
    /\ ~Names(engine.request, MatchingRules[1])
    /\ ~Names(engine.request, MatchingRules[3])


\* C29: classifiers never change or prevent the verdict: for every context and
\* every classifier list configured on the engine, decide returns a result whose
\* verdict is the verdict evaluate gives on the same context.
C29_ClassifiersLeaveVerdict ==
    (eqc.op = "engine" /\ eqc.calls = {"decide", "evaluate"}) =>
        /\ eqc.raised = ""
        /\ eqc.verdict = eqc.evaluated


\* C30: consume_nonce called with a time outside [created_at, expires_at]
\* raises WSQKSessionError and leaves the set of consumed nonces as it was;
\* execute_guarded called with such a time raises WSQKGuardError, consumes no
\* nonce and does not invoke the executor.
OutsideWindow(s, t) == t < s.created_at \/ t > s.expires_at

C30_OutsideWindowChangesNothing ==
    [][(session # NoSession /\ OutsideWindow(session, last'.at)) =>
          /\ last'.op = "consume_nonce" =>
                /\ last'.outcome = Raised("WSQKSessionError")
                /\ session'.used_nonces = session.used_nonces
          /\ last'.op = "execute_guarded" =>
                /\ last'.outcome = GuardError
                /\ last'.invoked = 0
                /\ session'.used_nonces = session.used_nonces
                /\ invocations' = invocations]_vars

\* consume_nonce was called after the window's end with a nonce never used:
\* it raised and the nonce is still unused
C30_Witness ==
    /\ session # NoSession
    /\ last.op = "consume_nonce"
    /\ last.at > session.expires_at
    /\ last.fresh
    /\ last.outcome = Raised("WSQKSessionError")
    /\ last.nonce \notin session.used_nonces


\* C31: consume_nonce and execute_guarded succeed only for a nonce that the
\* same session issued earlier through issue_nonce, never for a nonce value the
\* session did not issue.
C31_OnlyIssuedNoncesConsumed ==
    (last.op \in {"consume_nonce", "execute_guarded"}
        /\ last.outcome.kind = "return") =>
        last.nonce \in history.issued


\* C32: apply_decision never raises, whatever the request, the guardian_id and
\* the vote, a guardian outside required_guardians and a rule_id absent from the
\* catalog included; with the rule absent no vote moves the status to APPROVED.
C32_ApplyDecisionTotal ==
    ballots.vote.op = "apply_decision" =>
        /\ ballots.vote.raised = ""
        /\ request.rule_id \notin DOMAIN rule => request.status # "APPROVED"

\* an APPROVED vote of a guardian outside required_guardians was applied to a
\* request whose rule the catalog does not hold
C32_Witness ==
    /\ ballots.vote.op = "apply_decision"
    /\ ballots.vote.status = "APPROVED"
    /\ ballots.vote.guardian_id \notin request.required_guardians
    /\ request.rule_id \notin DOMAIN rule
    /\ approvals_count(request) >= 2
    /\ request.status = "PENDING"


\* C33: expiry fails closed and is permanent: a guarded call made at a time
\* after scope.expires_at or after session.expires_at raises and does not invoke
\* the executor, and while the times passed never go back no guarded call
\* returns once the call before it was made after either expiry.
Expired(t) == t > scope.expires_at \/ t > session.expires_at

C33_ExpiryFailsClosed ==
    [][(session # NoSession /\ last'.op = "execute_guarded") =>
          /\ Expired(last'.at) =>
                /\ last'.outcome.kind = "raise"
                /\ last'.invoked = 0
                /\ invocations' = invocations
          /\ (history'.clocked /\ Expired(history.latest)) =>
                last'.outcome.kind = "raise"]_vars

\* a call that presents the bound request with a nonce never used, inside the
\* session's window and after the scope's, fails without invoking the executor,
\* after an earlier call had succeeded
C33_Witness ==
    /\ session # NoSession
    /\ last.op = "execute_guarded"
    /\ <<last.ctx, last.wallet_id, last.action>> = BaseRequest
    /\ last.fresh
    /\ last.ex = Returned("result-1")
    /\ last.at > scope.expires_at
    /\ last.at <= session.expires_at
    /\ last.before.succeeded
    /\ last.outcome = GuardError
    /\ last.invoked = 0


\* C34: on an ALLOW decision execute invokes the executor exactly once, with
\* or without use_wsqk, and returns the executor's result with the context
\* hash of the decision, which equals context.context_hash().
C34_AllowRunsExecutorOnce ==
    (orch.op = "done" /\ orch.verdict = "ALLOW") =>
        /\ orch.invoked = 1
        /\ orch.ex.kind = "return" =>
              /\ orch.outcome = orch.ex
              /\ orch.context_hash = context_hash(orch.ctx)

\* the reasons of out all appear in v, in the order they have in out
KeepsReasons(v, out) ==
    \E f \in [DOMAIN out.reasons -> DOMAIN v.reasons] :
        /\ \A i, j \in DOMAIN out.reasons : i < j => f[i] < f[j]
        /\ \A i \in DOMAIN out.reasons : v.reasons[f[i]] = out.reasons[i]

\* C35: every terminal verdict that evaluate returns for a matched rule carries
\* a POLICY_RULE_MATCH reason naming the rule that matched, and keeps every
\* reason of the rule's own outcome in its original order.
C35_VerdictNamesMatchedRule ==
    (eqc.op = "evaluate" /\ AllPresent(eqc.ctx)
        /\ FirstTerminal(eqc.rules, eqc.ctx) # 0) =>
        LET k == FirstTerminal(eqc.rules, eqc.ctx)
        IN  /\ \E i \in DOMAIN eqc.verdict.reasons :
                  eqc.verdict.reasons[i] = Reason("POLICY_RULE_MATCH", eqc.rules[k])
            /\ KeepsReasons(eqc.verdict, RuleVerdict(eqc.rules[k], eqc.ctx))


\* the guardians that hold an APPROVED vote in the request's decision list
ApprovedBy(req) ==
    {req.decisions[i].guardian_id : i \in
        {j \in DOMAIN req.decisions : req.decisions[j].status = "APPROVED"}}

\* C36: in every state reached by apply_decision calls, a request whose status
\* is APPROVED holds at least min_approvals APPROVED votes of distinct guardians
\* in its decision list.
C36_ApprovedKeepsQuorum ==
    (rule # None /\ request.status = "APPROVED") =>
        Cardinality(ApprovedBy(request)) >= rule.min_approvals


\* C37: a request becomes APPROVED only through APPROVED votes of guardians
\* listed in its required_guardians: when a call moves the status to APPROVED,
\* the APPROVED votes of listed guardians alone reach min_approvals.
C37_OnlyRequiredGuardiansCount ==
    (ballots.vote.op = "apply_decision"
        /\ ballots.vote.before # "APPROVED"
        /\ request.status = "APPROVED") =>
        Cardinality(ApprovedBy(request) \cap request.required_guardians)
            >= rule[request.rule_id].min_approvals


\* the executor invocations made through execute_guarded, over all nonces
RECURSIVE InvocationsOver(_, _)
InvocationsOver(inv, S) ==
    IF S = {} THEN 0
    ELSE LET n == CHOOSE x \in S : TRUE
         IN  inv[n] + InvocationsOver(inv, S \ {n})

\* C38: for one session, after any sequence of execute_guarded and
\* consume_nonce calls, the executor invocations made through execute_guarded
\* never exceed the number of nonces in used_nonces, and no call removes a
\* nonce from used_nonces.
C38_InvocationsWithinUsedNonces ==
    [][/\ session' # NoSession =>
             InvocationsOver(invocations', Nonces)
                 <= Cardinality(session'.used_nonces)
       /\ session # NoSession =>
             session.used_nonces \subseteq session'.used_nonces]_vars

\* one nonce was spent by consume_nonce and the other by a guarded call that
\* ran the executor, after which a replay of it was refused
C38_Witness ==
    /\ session # NoSession
    /\ session.used_nonces = Nonces
    /\ InvocationsOver(invocations, Nonces) = 1
    /\ last.op = "execute_guarded"
    /\ ~last.fresh
    /\ invocations[last.nonce] = 1
    /\ last.outcome = GuardError


\* C39: the verdict of GuardianEngine.evaluate for an action does not depend on
\* the order of the rules in the catalog: the same rules in any other order
\* give the same verdict.
C39_VerdictIgnoresRuleOrder ==
    engine.op = "both" => engine.verdict_reordered = engine.verdict

\* two rules that both ask for approval stand in the two orders, with a rule
\* between them that does not: the verdict is REQUIRE_APPROVAL both times
C39_Witness ==
    /\ engine.op = "both"
    /\ Len(engine.rules) = 3
    /\ engine.reordered # engine.rules
    /\ RuleRequires(engine.rules[1], engine.ctx)
    /\ ~RuleRequires(engine.reordered[1], engine.ctx)
    /\ engine.verdict = "REQUIRE_APPROVAL"
    /\ engine.verdict_reordered = "REQUIRE_APPROVAL"


\* C40: for a context decided ALLOW and every ttl_seconds >= 0, execute with
\* use_wsqk=True, wallet_id and action given, invokes the executor once and
\* returns the result and the context hash that the same call with
\* use_wsqk=False returns: the scope bound inside the call passes its own check.
C40_WsqkPathEqualsPlainPath ==
    (orch.op = "done" /\ orch.verdict = "ALLOW" /\ orch.use_wsqk
        /\ orch.wallet_id # "" /\ orch.action # "" /\ orch.ttl >= 0
        /\ orch.ex.kind = "return") =>
        LET plain == RuntimeOrchestrator_execute(orch.ctx, orch.ex, FALSE,
                         orch.wallet_id, orch.action, orch.ttl, now, now)
        IN  /\ orch.invoked = 1
            /\ orch.outcome = plain.outcome
            /\ orch.context_hash = plain.context_hash

=============================================================================
